---------------------------- MODULE Spec2Model ----------------------------
(***************************************************************************)
(* Model of the workflow step-execution engine of the Agentic framework    *)
(* (agentic/core/workflow.py, agentic/core/workflow_step.py) together with *)
(* the two tools the example workflow uses (agentic/tools/calculator.py,   *)
(* agentic/tools/weather.py).                                              *)
(*                                                                         *)
(* Python values are modelled as records [kind, num, str, items]:          *)
(*   None            kind "none"                                           *)
(*   int / float     kind "int" / "float", num the (integral) magnitude    *)
(*   str             kind "str", str the text                              *)
(*   a mapping that a template reference aliases (the context data, the    *)
(*   step_results ledger or one ledger entry): kind "obj", str its name    *)
(*   list / tuple    kind "list", items the sequence of its elements       *)
(*   bool            kind "bool", num 1 for True and 0 for False           *)
(*   a dict that resolve_params builds: kind "dict", map its key-value     *)
(*   mapping                                                               *)
(* Optional[str] fields use "" for None and Optional[List[str]] fields use *)
(* << >> for None: the code tests all of them by truthiness only.          *)
(***************************************************************************)
EXTENDS Integers, Sequences, FiniteSets, TLC

VARIABLES
    workflow,          \* the Workflow object: [id, steps, start_step_id]
    supplied,          \* TRUE when the caller passes its own WorkflowContext
    context,           \* the WorkflowContext the run works on
    current_step_id,   \* Workflow.run: local current_step_id ("" = None)
    visited,           \* Workflow.run: local list visited
    pc,                \* position of the caller: "idle", "loop", "returned", "raised"
    raised,            \* the exception that left Workflow.run (NoExc if none)
    executed,          \* history: ids of the steps whose handler ran, in order
    calls,             \* history: one entry per run of the TOOL handler that got
                       \*   past resolve_params: the step id, the context before,
                       \*   the params, whether validate accepted them, whether
                       \*   execute returned, the context after, the next step
                       \*   id returned and the exception raised
    given,             \* history: the context as it was when run was called
    other,             \* a second call of Workflow.run on the same workflow,
                       \*   in another thread: its frame while it is not the
                       \*   one running ([pc |-> "none"] fields when there is none)
    runner,            \* the WorkflowRunner: its config.enable_logging, its
                       \*   execution_log, the position of its run and the
                       \*   value run returns
    agent,             \* an Agent and its process_message call: max_iterations,
                       \*   conversation_history, the locals and the outcome
    multi              \* a Runner and its run_multi_agent call: the config,
                       \*   the agents, the locals and the outcome

vars == <<workflow, supplied, context, current_step_id, visited, pc, raised,
          executed, calls, given, other, runner, agent, multi>>

---------------------------------------------------------------------------
(* Values *)

None == [kind |-> "none", num |-> 0, str |-> "", items |-> << >>]

PyInt(n) == [kind |-> "int", num |-> n, str |-> "", items |-> << >>]

PyFloat(n) == [kind |-> "float", num |-> n, str |-> "", items |-> << >>]

PyStr(s) == [kind |-> "str", num |-> 0, str |-> s, items |-> << >>]

Obj(name) == [kind |-> "obj", num |-> 0, str |-> name, items |-> << >>]

\* a list (or tuple) of values
PyList(items) == [kind |-> "list", num |-> 0, str |-> "", items |-> items]

PyBool(b) ==
    [kind |-> "bool", num |-> IF b THEN 1 ELSE 0, str |-> "", items |-> << >>]

PyDict(map) ==
    [kind |-> "dict", num |-> 0, str |-> "", items |-> << >>, map |-> map]

IsNumber(v) == v.kind \in {"int", "float"}

\* Python's ==  on the modelled values (an int equals the float of the same magnitude)
PyEq(v, w) ==
    IF IsNumber(v) /\ IsNumber(w) THEN v.num = w.num ELSE v = w

\* repr(v) of a list element
Repr(v) ==
    CASE v.kind = "none"  -> "None"
      [] v.kind = "int"   -> ToString(v.num)
      [] v.kind = "float" -> ToString(v.num) \o ".0"
      [] v.kind = "str"   -> "'" \o v.str \o "'"
      [] OTHER            -> "[...]"

\* ", ".join(repr(item) for item in items)
RECURSIVE ReprItems(_)
ReprItems(items) ==
    IF Len(items) = 0 THEN ""
    ELSE IF Len(items) = 1 THEN Repr(items[1])
    ELSE Repr(items[1]) \o ", " \o ReprItems(Tail(items))

\* str(v) as an f-string renders it
Fmt(v) ==
    CASE v.kind = "none"  -> "None"
      [] v.kind = "int"   -> ToString(v.num)
      [] v.kind = "float" -> ToString(v.num) \o ".0"
      [] v.kind = "str"   -> v.str
      [] v.kind = "list"  -> "[" \o ReprItems(v.items) \o "]"
      [] OTHER            -> "{" \o v.str \o "}"

EmptyMap == [k \in {} |-> None]

\* dict.get(k) with the default None
Get(map, k) == IF k \in DOMAIN map THEN map[k] ELSE None

\* dict[k] = v
Put(map, k, v) == [j \in (DOMAIN map) \cup {k} |-> IF j = k THEN v ELSE map[j]]

---------------------------------------------------------------------------
(* Exceptions *)

NoExc == [type |-> "", msg |-> ""]

Exc(type, msg) == [type |-> type, msg |-> msg]

\* ToolExecutionError.__init__ builds the message str(exc) shows
ToolExecutionError(tool_name, message) ==
    Exc("ToolExecutionError",
        "Tool '" \o tool_name \o "' execution failed: " \o message)

\* outcome of a call that may raise
Ok(v) == [ok |-> TRUE, value |-> v, exc |-> NoExc]

Raise(e) == [ok |-> FALSE, value |-> None, exc |-> e]

---------------------------------------------------------------------------
(* Tools: the registry maps "calculator" and "weather" *)

ToolNames == {"calculator", "weather"}

\* float(v)
ToFloat(v) ==
    CASE IsNumber(v)      -> Ok(PyFloat(v.num))
      [] v.kind = "str"   -> Raise(Exc("ValueError",
                                "could not convert string to float: '" \o v.str \o "'"))
      [] v.kind = "none"  -> Raise(Exc("TypeError",
                                "float() argument must be a string or a real number, not 'NoneType'"))
      [] v.kind = "list"  -> Raise(Exc("TypeError",
                                "float() argument must be a string or a real number, not 'list'"))
      [] OTHER            -> Raise(Exc("TypeError",
                                "float() argument must be a string or a real number, not 'dict'"))

CalculatorValidate(params) ==
    ~ (Get(params, "operation") = PyStr("divide") /\ PyEq(Get(params, "b"), PyInt(0)))

CalculatorExecute(params) ==
    IF "operation" \notin DOMAIN params THEN Raise(Exc("KeyError", "'operation'"))
    ELSE IF "a" \notin DOMAIN params THEN Raise(Exc("KeyError", "'a'"))
    ELSE IF ~ ToFloat(params["a"]).ok THEN Raise(ToFloat(params["a"]).exc)
    ELSE IF "b" \notin DOMAIN params THEN Raise(Exc("KeyError", "'b'"))
    ELSE IF ~ ToFloat(params["b"]).ok THEN Raise(ToFloat(params["b"]).exc)
    ELSE LET operation == params["operation"]
             a == ToFloat(params["a"]).value.num
             b == ToFloat(params["b"]).value.num
         IN  CASE operation = PyStr("add")      -> Ok(PyFloat(a + b))
               [] operation = PyStr("subtract") -> Ok(PyFloat(a - b))
               [] operation = PyStr("multiply") -> Ok(PyFloat(a * b))
               [] operation = PyStr("divide")   ->
                      IF b = 0
                      THEN Raise(Exc("ValueError", "Division by zero is not allowed"))
                      ELSE Ok(PyFloat(a \div b))
               [] OTHER -> Raise(Exc("ValueError",
                                     "Unknown operation: " \o Fmt(operation)))

\* the degree sign of the result text is written "deg"; units is "celsius" or
\* "fahrenheit", whose first letter is the unit letter
WeatherExecute(params) ==
    IF "location" \notin DOMAIN params THEN Raise(Exc("KeyError", "'location'"))
    ELSE LET location == params["location"]
             units == IF "units" \in DOMAIN params THEN params["units"]
                      ELSE PyStr("celsius")
             temperature == IF units = PyStr("celsius") THEN "22" ELSE "72"
             letter == IF units = PyStr("celsius") THEN "C" ELSE "F"
         IN  Ok(PyStr("Weather in " \o Fmt(location) \o ": " \o temperature
                    \o "deg" \o letter \o ", Sunny, Humidity: 65%"))

ToolValidate(tool, params) ==
    IF tool = "calculator" THEN CalculatorValidate(params) ELSE TRUE

ToolExecute(tool, params) ==
    IF tool = "calculator" THEN CalculatorExecute(params) ELSE WeatherExecute(params)

---------------------------------------------------------------------------
(* WorkflowStep *)

\* a tool_params value: a literal, or a string of the form ${p1.p2...}
Lit(v) == [tpl |-> FALSE, path |-> << >>, lit |-> v]

Tpl(path) == [tpl |-> TRUE, path |-> path, lit |-> None]

\* a tool_params value that is a list, or a dict, of tool_params values
ListParam(items) == [tpl |-> FALSE, path |-> << >>, lit |-> None, list |-> items]

DictParam(map) == [tpl |-> FALSE, path |-> << >>, lit |-> None, dict |-> map]

IsListParam(value) == "list" \in DOMAIN value

IsDictParam(value) == "dict" \in DOMAIN value

\* a step with the field defaults of the WorkflowStep declaration
WorkflowStep(id, step_type) ==
    [id |-> id, step_type |-> step_type,
     tool_name |-> "", tool_params |-> [k \in {} |-> Lit(None)],
     condition |-> "", condition_expression |-> "",
     on_true |-> << >>, on_false |-> << >>,
     parallel_steps |-> << >>,
     loop_steps |-> << >>, loop_condition |-> "", loop_expression |-> "",
     max_iterations |-> 10,
     output_key |-> "", on_error |-> "", continue_on_error |-> FALSE]

\* the dict both resolve_params and the predicates receive
Wrapper(ctx) == [context |-> ctx.data, step_results |-> ctx.step_results]

\* ".".join(parts)
RECURSIVE Join(_)
Join(parts) ==
    IF Len(parts) = 0 THEN ""
    ELSE IF Len(parts) = 1 THEN parts[1]
    ELSE parts[1] \o "." \o Join(Tail(parts))

\* wrapper.get(key): the wrapper's own keys are "context" and "step_results"
WrapperGet(wrapper, key) ==
    IF key \in DOMAIN wrapper THEN Obj(key) ELSE None

\* mutant: every field reference reads the result field
EntryGetResultOnly(step_results, step_id, field) ==
    IF step_id \in DOMAIN step_results
    THEN step_results[step_id].result
    ELSE None

\* step_results.get(step_id, {}).get(field)
EntryGet(step_results, step_id, field) ==
    IF step_id \in DOMAIN step_results /\ field \in DOMAIN step_results[step_id]
    THEN step_results[step_id][field]
    ELSE None

\* the keys str.isdigit accepts, among the keys of the model
DigitStrings == <<"0", "1", "2", "3", "4", "5", "6", "7", "8", "9">>

IsDigit(key) == \E i \in 1..Len(DigitStrings) : DigitStrings[i] = key

\* int(key) for a key IsDigit accepts
IntOf(key) == (CHOOSE i \in 1..Len(DigitStrings) : DigitStrings[i] = key) - 1

\* the loop of _get_nested_value once obj is a value of an entry: a list is
\* indexed by obj[int(key)], which raises past its end; anything else (the
\* entries of the model hold no dict) ends the descent with None
RECURSIVE Descend(_, _)
Descend(obj, path) ==
    IF Len(path) = 0 THEN Ok(obj)
    ELSE IF obj.kind = "list" /\ IsDigit(path[1])
    THEN IF IntOf(path[1]) < Len(obj.items)
         THEN LET item == obj.items[IntOf(path[1]) + 1]
              IN  IF item = None THEN Ok(None) ELSE Descend(item, Tail(path))
         ELSE Raise(Exc("IndexError", "list index out of range"))
    ELSE Ok(None)

\* _get_nested_value(step_result, path): the first key indexes the entry
GetNestedValue(step_results, step_id, path) ==
    IF Len(path) = 0 THEN Ok(Obj(step_id))
    ELSE LET obj == EntryGet(step_results, step_id, path[1])
         IN  IF obj = None THEN Ok(None) ELSE Descend(obj, Tail(path))

ResolvePath(parts, wrapper) ==
    IF parts[1] = "context"
    THEN Ok(WrapperGet(wrapper, Join(Tail(parts))))
    ELSE IF Len(parts) = 2
         THEN Ok(EntryGet(wrapper.step_results, parts[1], parts[2]))
         ELSE GetNestedValue(wrapper.step_results, parts[1], Tail(parts))

\* the indexes of the items whose resolution raised
FailedItems(resolved) == {j \in DOMAIN resolved : ~ resolved[j].ok}

\* mutant: items that resolve to None are left out of the list
ListOutcomeDropsNone(resolved) ==
    IF FailedItems(resolved) # {}
    THEN Raise(resolved[CHOOSE j \in FailedItems(resolved) :
                           \A h \in FailedItems(resolved) : j <= h].exc)
    ELSE Ok(PyList(SelectSeq([j \in DOMAIN resolved |-> resolved[j].value],
                             LAMBDA v : v # None)))

\* "[self._resolve_value(item, context) for item in value]", resolved the
\* outcomes of the items: the list, or what the first failing item raised
ListOutcome(resolved) ==
    IF FailedItems(resolved) # {}
    THEN Raise(resolved[CHOOSE j \in FailedItems(resolved) :
                           \A h \in FailedItems(resolved) : j <= h].exc)
    ELSE Ok(PyList([j \in DOMAIN resolved |-> resolved[j].value]))

\* "{k: self._resolve_value(v, context) for k, v in value.items()}"
DictOutcome(resolved) ==
    IF FailedItems(resolved) # {}
    THEN Raise(resolved[CHOOSE k \in FailedItems(resolved) : TRUE].exc)
    ELSE Ok(PyDict([k \in DOMAIN resolved |-> resolved[k].value]))

RECURSIVE ResolveValue(_, _)
ResolveValue(value, wrapper) ==
    IF value.tpl THEN ResolvePath(value.path, wrapper)
    ELSE IF IsDictParam(value)
    THEN DictOutcome([k \in DOMAIN value.dict |-> ResolveValue(value.dict[k], wrapper)])
    ELSE IF IsListParam(value)
    THEN ListOutcome([j \in DOMAIN value.list |-> ResolveValue(value.list[j], wrapper)])
    ELSE Ok(value.lit)

\* what resolve_params yields once every value is resolved: the dict of the
\* values, or the exception the resolution of one of them raised
ParamsOutcome(resolved) ==
    LET failed == {key \in DOMAIN resolved : ~ resolved[key].ok}
    IN  IF failed = {}
        THEN [ok |-> TRUE, params |-> [key \in DOMAIN resolved |-> resolved[key].value],
              exc |-> NoExc]
        ELSE [ok |-> FALSE, params |-> [key \in {} |-> None],
              exc |-> resolved[CHOOSE key \in failed : TRUE].exc]

ResolveParams(step, wrapper) ==
    ParamsOutcome([key \in DOMAIN step.tool_params |->
                      ResolveValue(step.tool_params[key], wrapper)])

---------------------------------------------------------------------------
(* Predicates: injected functions and expression strings *)

Truth(b) == [ok |-> TRUE, truth |-> b, exc |-> NoExc]

Fails(e) == [ok |-> FALSE, truth |-> FALSE, exc |-> e]

\* v < n and v > n for a Python value v and an int n
PyLess(v, n) ==
    IF IsNumber(v) THEN Truth(v.num < n)
    ELSE Fails(Exc("TypeError", "'<' not supported"))

PyGreater(v, n) ==
    IF IsNumber(v) THEN Truth(v.num > n)
    ELSE Fails(Exc("TypeError", "'>' not supported"))

\* dict.get(k, 0)
GetOr0(map, k) == IF k \in DOMAIN map THEN map[k] ELSE PyInt(0)

\* the injected predicates of the model, by name
CallPredicate(fn, wrapper) ==
    CASE fn = "always_true"  -> Truth(TRUE)
      [] fn = "always_false" -> Truth(FALSE)
      [] fn = "counter_lt_2" -> PyLess(GetOr0(wrapper.context, "counter"), 2)
      [] fn = "raises"       -> Fails(Exc("KeyError", "'missing'"))
      [] OTHER               -> Fails(Exc("KeyError", "'missing'"))

\* eval(expression, {"context": wrapper})
EvalExpression(expression, wrapper) ==
    CASE expression = "True"  -> Truth(TRUE)
      [] expression = "False" -> Truth(FALSE)
      [] expression = "context.get('sum_result', 0) > 30" ->
             PyGreater(IF "sum_result" \in DOMAIN wrapper
                       THEN Obj("sum_result") ELSE PyInt(0), 30)
      [] expression = "context['context'].get('sum_result', 0) > 30" ->
             PyGreater(GetOr0(wrapper.context, "sum_result"), 30)
      [] expression = "context['context'].get('counter', 0) < 2" ->
             PyLess(GetOr0(wrapper.context, "counter"), 2)
      [] expression = "context['missing'] > 1" ->
             IF "missing" \in DOMAIN wrapper
             THEN PyGreater(Obj("missing"), 1)
             ELSE Fails(Exc("KeyError", "'missing'"))
      [] OTHER -> Fails(Exc("SyntaxError", "invalid syntax"))

EvaluateCondition(step, wrapper) ==
    IF step.condition # "" THEN CallPredicate(step.condition, wrapper)
    ELSE IF step.condition_expression # ""
    THEN LET r == EvalExpression(step.condition_expression, wrapper)
         IN  IF r.ok THEN r ELSE Truth(FALSE)
    ELSE Truth(TRUE)

\* mutant: a LOOP step without a predicate loops, as a CONDITION step without
\* one is true
EvaluateLoopConditionDefaultTrue(step, wrapper) ==
    IF step.loop_condition # "" THEN CallPredicate(step.loop_condition, wrapper)
    ELSE IF step.loop_expression # ""
    THEN LET r == EvalExpression(step.loop_expression, wrapper)
         IN  IF r.ok THEN r ELSE Truth(FALSE)
    ELSE Truth(TRUE)

EvaluateLoopCondition(step, wrapper) ==
    IF step.loop_condition # "" THEN CallPredicate(step.loop_condition, wrapper)
    ELSE IF step.loop_expression # ""
    THEN LET r == EvalExpression(step.loop_expression, wrapper)
         IN  IF r.ok THEN r ELSE Truth(FALSE)
    ELSE Truth(FALSE)

---------------------------------------------------------------------------
(* Workflow: the step handlers.  A handler works on a record m =            *)
(* [context, executed, calls, next, exc, diverged]: the context it mutates, *)
(* the histories, the next step id it returns, the exception it raises and  *)
(* whether it never returns.                                                *)

Machine(ctx, ex, cl) ==
    [context |-> ctx, executed |-> ex, calls |-> cl,
     next |-> "", exc |-> NoExc, diverged |-> FALSE]

Stopped(m) == m.exc # NoExc \/ m.diverged

StepResult(result, error) == [result |-> result, error |-> error]

\* Workflow.get_step
GetStep(wf, step_id) ==
    IF step_id \in DOMAIN wf.steps
    THEN [ok |-> TRUE, step |-> wf.steps[step_id], exc |-> NoExc]
    ELSE [ok |-> FALSE, step |-> WorkflowStep(step_id, ""),
          exc |-> Exc("KeyError", "Step '" \o step_id \o "' not found in workflow '"
                                  \o wf.id \o "'")]

\* mutant: a step whose id is registered replaces the registered one
AddStepOverwrites(wf, step) ==
    [ok |-> TRUE, workflow |-> [wf EXCEPT !.steps = Put(@, step.id, step)],
     exc |-> NoExc]

\* Workflow.add_step: the workflow after the call and what the call raised
AddStep(wf, step) ==
    IF step.id \in DOMAIN wf.steps
    THEN [ok |-> FALSE, workflow |-> wf,
          exc |-> Exc("ValueError", "Step '" \o step.id
                      \o "' is already registered in workflow '" \o wf.id \o "'")]
    ELSE [ok |-> TRUE, workflow |-> [wf EXCEPT !.steps = Put(@, step.id, step)],
          exc |-> NoExc]

\* mutant: continue_on_error is tested before on_error
FailureOutcomeContinueFirst(step) ==
    IF step.continue_on_error THEN "continue"
    ELSE IF step.on_error # "" THEN "redirect"
    ELSE "raise"

\* mutant: continue_on_error is not honoured
FailureOutcomeNeverContinues(step) ==
    IF step.on_error # "" THEN "redirect" ELSE "raise"

\* mutant: a step with both on_error and continue_on_error set fails fatally
FailureOutcomeConflictRaises(step) ==
    IF step.on_error # "" /\ step.continue_on_error THEN "raise"
    ELSE IF step.on_error # "" THEN "redirect"
    ELSE IF ~ step.continue_on_error THEN "raise"
    ELSE "continue"

\* what the except branch of _run_tool_step does after recording the failure
FailureOutcome(step) ==
    IF step.on_error # "" THEN "redirect"
    ELSE IF ~ step.continue_on_error THEN "raise"
    ELSE "continue"

\* mutant: a failed call resets the key its result would have been written to
ToolFailureClearsOutput(step, m, e) ==
    LET step_result == StepResult(None, PyStr(e.msg))
        cleared == [m.context EXCEPT
                      !.last_result = None,
                      !.data = IF step.output_key # ""
                               THEN Put(@, step.output_key, None) ELSE @]
        stored == [cleared EXCEPT
                     !.step_results = Put(@, step.id, step_result)]
    IN  CASE FailureOutcome(step) = "redirect" ->
                 [m EXCEPT !.context = stored, !.next = step.on_error]
          [] FailureOutcome(step) = "raise" ->
                 [m EXCEPT !.context = cleared, !.exc = e]
          [] OTHER ->
                 [m EXCEPT !.context = stored, !.next = ""]

\* mutant: a recovered failure is not recorded in step_results
ToolFailureForgets(step, m, e) ==
    LET cleared == [m.context EXCEPT !.last_result = None]
    IN  CASE FailureOutcome(step) = "redirect" ->
                 [m EXCEPT !.context = cleared, !.next = step.on_error]
          [] FailureOutcome(step) = "raise" ->
                 [m EXCEPT !.context = cleared, !.exc = e]
          [] OTHER ->
                 [m EXCEPT !.context = cleared, !.next = ""]

\* the except branch of _run_tool_step, e the exception caught
ToolFailure(step, m, e) ==
    LET step_result == StepResult(None, PyStr(e.msg))
        cleared == [m.context EXCEPT !.last_result = None]
        stored == [cleared EXCEPT
                     !.step_results = Put(@, step.id, step_result)]
    IN  CASE FailureOutcome(step) = "redirect" ->
                 [m EXCEPT !.context = stored, !.next = step.on_error]
          [] FailureOutcome(step) = "raise" ->
                 [m EXCEPT !.context = cleared, !.exc = e]
          [] OTHER ->
                 [m EXCEPT !.context = stored, !.next = ""]

\* mutant: the result is written to the context root whether or not
\* output_key is set
ToolSuccessAlwaysWrites(step, m, result) ==
    LET c1 == [m.context EXCEPT !.last_result = result]
        c2 == [c1 EXCEPT !.data = Put(@, step.output_key, result)]
        c3 == [c2 EXCEPT !.step_results =
                            Put(@, step.id, StepResult(result, None))]
    IN  [m EXCEPT !.context = c3, !.next = ""]

\* mutant: a successful step falls through to the return of the except branch
ToolSuccessFallsThrough(step, m, result) ==
    LET c1 == [m.context EXCEPT !.last_result = result]
        c2 == IF step.output_key # ""
              THEN [c1 EXCEPT !.data = Put(@, step.output_key, result)]
              ELSE c1
        c3 == [c2 EXCEPT !.step_results =
                            Put(@, step.id, StepResult(result, None))]
    IN  [m EXCEPT !.context = c3, !.next = step.on_error]

\* the try branch of _run_tool_step when execute returned result
ToolSuccess(step, m, result) ==
    LET c1 == [m.context EXCEPT !.last_result = result]
        c2 == IF step.output_key # ""
              THEN [c1 EXCEPT !.data = Put(@, step.output_key, result)]
              ELSE c1
        c3 == [c2 EXCEPT !.step_results =
                            Put(@, step.id, StepResult(result, None))]
    IN  [m EXCEPT !.context = c3, !.next = ""]

\* the history entry of one run of the TOOL handler
Call(step, params, valid, ok, before, m) ==
    [step_id |-> step.id, params |-> params, valid |-> valid, ok |-> ok,
     before |-> before, after |-> m.context, next |-> m.next, exc |-> m.exc]

\* the try block of _run_tool_step and the store after it, given the
\* resolved parameters, what validate returned and the outcome of execute
TryTool(step, m, params, valid, r) ==
    LET m2 == IF ~ valid
              THEN ToolFailure(step, m, ToolExecutionError(step.tool_name,
                       "Validation failed for tool '" \o step.tool_name
                       \o "' in step '" \o step.id \o "'"))
              ELSE IF r.ok THEN ToolSuccess(step, m, r.value)
              ELSE ToolFailure(step, m, r.exc)
    IN  [m2 EXCEPT !.calls = Append(@,
            Call(step, params, valid, valid /\ r.ok, m.context, m2))]

\* mutant: resolve_params leaves a mark in the context data it reads
ResolvedToolStepCaching(step, m, resolved) ==
    IF ~ resolved.ok THEN [m EXCEPT !.exc = resolved.exc]
    ELSE TryTool(step,
                 [m EXCEPT !.context.data = Put(@, "resolved", PyStr(step.id))],
                 resolved.params,
                 ToolValidate(step.tool_name, resolved.params),
                 ToolExecute(step.tool_name, resolved.params))

\* _run_tool_step from resolve_params on, resolved its outcome
ResolvedToolStep(step, m, resolved) ==
    IF ~ resolved.ok THEN [m EXCEPT !.exc = resolved.exc]
    ELSE TryTool(step, m, resolved.params,
                 ToolValidate(step.tool_name, resolved.params),
                 ToolExecute(step.tool_name, resolved.params))

\* mutant: the registry lookup is made inside the try block, so that a
\* missing tool is handled like a failed execution
RunToolStepRecoversMissingTool(step, m0) ==
    LET m == [m0 EXCEPT !.executed = Append(@, step.id), !.next = ""]
    IN  IF step.tool_name = ""
        THEN [m EXCEPT !.exc = Exc("ValueError",
                 "Step '" \o step.id \o "' is TOOL type but has no tool_name")]
        ELSE IF step.tool_name \notin ToolNames
        THEN ToolFailure(step, m, ToolExecutionError(step.tool_name,
                 "Tool '" \o step.tool_name \o "' not found for step '"
                 \o step.id \o "'"))
        ELSE ResolvedToolStep(step, m, ResolveParams(step, Wrapper(m.context)))

RunToolStep(step, m0) ==
    LET m == [m0 EXCEPT !.executed = Append(@, step.id), !.next = ""]
    IN  IF step.tool_name = ""
        THEN [m EXCEPT !.exc = Exc("ValueError",
                 "Step '" \o step.id \o "' is TOOL type but has no tool_name")]
        ELSE IF step.tool_name \notin ToolNames
        THEN [m EXCEPT !.exc = ToolExecutionError(step.tool_name,
                 "Tool '" \o step.tool_name \o "' not found for step '"
                 \o step.id \o "'")]
        ELSE ResolvedToolStep(step, m, ResolveParams(step, Wrapper(m.context)))

\* mutant: of several next steps the first is taken
RunConditionStepTakesFirst(step, m0) ==
    LET m == [m0 EXCEPT !.executed = Append(@, step.id), !.next = ""]
        c == EvaluateCondition(step, Wrapper(m.context))
        next_steps == IF c.truth THEN step.on_true ELSE step.on_false
    IN  IF ~ c.ok THEN [m EXCEPT !.exc = c.exc]
        ELSE IF Len(next_steps) = 0 THEN m
        ELSE [m EXCEPT !.next = next_steps[1]]

\* mutant: the branches are taken the wrong way round
RunConditionStepSwapped(step, m0) ==
    LET m == [m0 EXCEPT !.executed = Append(@, step.id), !.next = ""]
        c == EvaluateCondition(step, Wrapper(m.context))
        branch == IF c.truth THEN "on_false" ELSE "on_true"
        next_steps == IF c.truth THEN step.on_false ELSE step.on_true
    IN  IF ~ c.ok THEN [m EXCEPT !.exc = c.exc]
        ELSE IF Len(next_steps) = 0 THEN m
        ELSE IF Len(next_steps) > 1
        THEN [m EXCEPT !.exc = Exc("ValueError",
                 "Step '" \o step.id \o "' " \o branch
                 \o " has multiple next steps defined. "
                 \o "Use a dedicated PARALLEL step for fan-out.")]
        ELSE [m EXCEPT !.next = next_steps[1]]

RunConditionStep(step, m0) ==
    LET m == [m0 EXCEPT !.executed = Append(@, step.id), !.next = ""]
        c == EvaluateCondition(step, Wrapper(m.context))
        branch == IF c.truth THEN "on_true" ELSE "on_false"
        next_steps == IF c.truth THEN step.on_true ELSE step.on_false
    IN  IF ~ c.ok THEN [m EXCEPT !.exc = c.exc]
        ELSE IF Len(next_steps) = 0 THEN m
        ELSE IF Len(next_steps) > 1
        THEN [m EXCEPT !.exc = Exc("ValueError",
                 "Step '" \o step.id \o "' " \o branch
                 \o " has multiple next steps defined. "
                 \o "Use a dedicated PARALLEL step for fan-out.")]
        ELSE [m EXCEPT !.next = next_steps[1]]

RECURSIVE RunNestedChain(_, _, _, _)

\* mutant: the chain ends after its first TOOL step
RunNestedChainOnce(wf, nested_current, m, seen) ==
    IF nested_current = "" THEN m
    ELSE LET g == GetStep(wf, nested_current)
         IN  IF ~ g.ok THEN [m EXCEPT !.exc = g.exc]
             ELSE IF g.step.step_type = "tool" THEN RunToolStep(g.step, m)
             ELSE m

\* the nested chain "while nested_current:" of both group handlers; seen holds
\* the (nested_current, context) pairs the chain has been in: the chain is
\* deterministic, so coming back to one of them means it never ends
RunNestedChain(wf, nested_current, m, seen) ==
    IF nested_current = "" THEN m
    ELSE IF <<nested_current, m.context>> \in seen
    THEN [m EXCEPT !.diverged = TRUE]
    ELSE LET g == GetStep(wf, nested_current)
         IN  IF ~ g.ok THEN [m EXCEPT !.exc = g.exc]
             ELSE IF g.step.step_type = "tool"
             THEN LET m2 == RunToolStep(g.step, m)
                  IN  IF Stopped(m2) THEN m2
                      ELSE RunNestedChain(wf, m2.next, m2,
                               seen \cup {<<nested_current, m.context>>})
             ELSE m

RECURSIVE RunMembers(_, _, _, _)

\* mutant: a LOOP or PARALLEL member has the first step of its own list run
\* when that is a TOOL step
RunMembersFlattening(wf, ids, i, m) ==
    IF i > Len(ids) THEN m
    ELSE LET g == GetStep(wf, ids[i])
             m2 == IF ~ g.ok THEN [m EXCEPT !.exc = g.exc]
                   ELSE IF g.step.step_type = "tool"
                   THEN RunToolStep(g.step, m)
                   ELSE IF g.step.step_type = "condition"
                   THEN LET mc == RunConditionStep(g.step, m)
                        IN  IF Stopped(mc) THEN mc
                            ELSE RunNestedChain(wf, mc.next, mc, {})
                   ELSE LET own == g.step.parallel_steps \o g.step.loop_steps
                            h == GetStep(wf, own[1])
                        IN  IF Len(own) > 0 /\ h.ok /\ h.step.step_type = "tool"
                            THEN RunToolStep(h.step, m) ELSE m
         IN  IF Stopped(m2) THEN m2 ELSE RunMembers(wf, ids, i + 1, m2)

\* mutant: a member's recorded failure ends the pass
RunMembersEndsOnFailure(wf, ids, i, m) ==
    IF i > Len(ids) THEN m
    ELSE LET g == GetStep(wf, ids[i])
             m2 == IF ~ g.ok THEN [m EXCEPT !.exc = g.exc]
                   ELSE IF g.step.step_type = "tool"
                   THEN RunToolStep(g.step, m)
                   ELSE IF g.step.step_type = "condition"
                   THEN LET mc == RunConditionStep(g.step, m)
                        IN  IF Stopped(mc) THEN mc
                            ELSE RunNestedChain(wf, mc.next, mc, {})
                   ELSE m
         IN  IF Stopped(m2) THEN m2
             ELSE IF Len(m2.calls) > Len(m.calls) /\ ~ m2.calls[Len(m2.calls)].ok
             THEN m2
             ELSE RunMembers(wf, ids, i + 1, m2)

\* one pass of "for child_step_id in ..." of a group handler, from member i
RunMembers(wf, ids, i, m) ==
    IF i > Len(ids) THEN m
    ELSE LET g == GetStep(wf, ids[i])
             m2 == IF ~ g.ok THEN [m EXCEPT !.exc = g.exc]
                   ELSE IF g.step.step_type = "tool"
                   THEN RunToolStep(g.step, m)
                   ELSE IF g.step.step_type = "condition"
                   THEN LET mc == RunConditionStep(g.step, m)
                        IN  IF Stopped(mc) THEN mc
                            ELSE RunNestedChain(wf, mc.next, mc, {})
                   ELSE m
         IN  IF Stopped(m2) THEN m2 ELSE RunMembers(wf, ids, i + 1, m2)

\* mutant: the id the last member returned is passed on as the next step
RunParallelStepKeepsNext(wf, step, m0) ==
    LET m == [m0 EXCEPT !.executed = Append(@, step.id), !.next = ""]
    IN  IF Len(step.parallel_steps) = 0 THEN m
        ELSE RunMembers(wf, step.parallel_steps, 1, m)

RunParallelStep(wf, step, m0) ==
    LET m == [m0 EXCEPT !.executed = Append(@, step.id), !.next = ""]
    IN  IF Len(step.parallel_steps) = 0 THEN m
        ELSE [RunMembers(wf, step.parallel_steps, 1, m) EXCEPT !.next = ""]

\* mutant: the bound is checked with <=
WithinLimitInclusive(iterations, max_iterations) == iterations <= max_iterations

\* "iterations < step.max_iterations"
WithinLimit(iterations, max_iterations) == iterations < max_iterations

RECURSIVE LoopFrom(_, _, _, _)

\* mutant: the predicate is evaluated before the first pass only
LoopFromChecksOnce(wf, step, iterations, m) ==
    IF ~ WithinLimit(iterations, step.max_iterations) THEN m
    ELSE LET c == IF iterations = 0
                  THEN EvaluateLoopCondition(step, Wrapper(m.context))
                  ELSE Truth(TRUE)
         IN  IF ~ c.ok THEN [m EXCEPT !.exc = c.exc]
             ELSE IF ~ c.truth THEN m
             ELSE LET m2 == RunMembers(wf, step.loop_steps, 1, m)
                  IN  IF Stopped(m2) THEN m2
                      ELSE LoopFrom(wf, step, iterations + 1, m2)

\* the while loop of _run_loop_step after iterations passes
LoopFrom(wf, step, iterations, m) ==
    IF ~ WithinLimit(iterations, step.max_iterations) THEN m
    ELSE LET c == EvaluateLoopCondition(step, Wrapper(m.context))
         IN  IF ~ c.ok THEN [m EXCEPT !.exc = c.exc]
             ELSE IF ~ c.truth THEN m
             ELSE LET m2 == RunMembers(wf, step.loop_steps, 1, m)
                  IN  IF Stopped(m2) THEN m2
                      ELSE LoopFrom(wf, step, iterations + 1, m2)

RunLoopStep(wf, step, m0) ==
    LET m == [m0 EXCEPT !.executed = Append(@, step.id), !.next = ""]
    IN  IF Len(step.loop_steps) = 0 THEN m
        ELSE [LoopFrom(wf, step, 0, m) EXCEPT !.next = ""]

---------------------------------------------------------------------------
(* Workflow.run *)

WorkflowContext(data, step_results) ==
    [data |-> data, step_results |-> step_results,
     last_step_id |-> "", last_result |-> None]

Range(seq) == {seq[i] : i \in 1..Len(seq)}

\* mutant: the guard looks at the previous step only
InVisitedLastOnly(step_id, vis) == Len(vis) > 0 /\ step_id = vis[Len(vis)]

\* "current_step_id in visited"
InVisited(step_id, vis) == step_id \in Range(vis)

CycleError(wf, step_id) ==
    Exc("RuntimeError",
        "Detected loop at step '" \o step_id \o "' in workflow '" \o wf.id \o "'. "
        \o "Configure LOOP-type steps explicitly instead of cyclic references.")

\* run(tools, context) is entered: "if context is None", the two locals
Run ==
    /\ pc = "idle"
    /\ pc' = "loop"
    /\ context' = IF supplied THEN context ELSE WorkflowContext(EmptyMap, EmptyMap)
    /\ current_step_id' = workflow.start_step_id
    /\ visited' = << >>
    /\ UNCHANGED <<workflow, supplied, raised, executed, calls, given, other, runner, agent, multi>>

\* a pass of "while current_step_id:" that finds the id in visited
CycleDetected ==
    /\ pc = "loop"
    /\ current_step_id # ""
    /\ InVisited(current_step_id, visited)
    /\ pc' = "raised"
    /\ raised' = CycleError(workflow, current_step_id)
    /\ UNCHANGED <<workflow, supplied, context, current_step_id, visited,
                   executed, calls, given, other, runner, agent, multi>>

\* a pass in which get_step raises
StepNotFound ==
    /\ pc = "loop"
    /\ current_step_id # ""
    /\ ~ InVisited(current_step_id, visited)
    /\ ~ GetStep(workflow, current_step_id).ok
    /\ visited' = Append(visited, current_step_id)
    /\ pc' = "raised"
    /\ raised' = GetStep(workflow, current_step_id).exc
    /\ UNCHANGED <<workflow, supplied, context, current_step_id,
                   executed, calls, given, other, runner, agent, multi>>

\* a pass reaches the dispatch: the id is new and get_step finds the step
AtDispatch ==
    /\ pc = "loop"
    /\ current_step_id # ""
    /\ ~ InVisited(current_step_id, visited)
    /\ GetStep(workflow, current_step_id).ok

CurrentStep == GetStep(workflow, current_step_id).step

\* the rest of the pass, m the outcome of the handler
Advance(m) ==
    /\ visited' = Append(visited, current_step_id)
    /\ context' = m.context
    /\ executed' = m.executed
    /\ calls' = m.calls
    /\ IF m.exc # NoExc
       THEN pc' = "raised" /\ raised' = m.exc /\ UNCHANGED current_step_id
       ELSE IF m.diverged
       THEN pc' = "hung" /\ UNCHANGED <<raised, current_step_id>>
       ELSE pc' = "loop" /\ current_step_id' = m.next /\ UNCHANGED raised
    /\ UNCHANGED <<workflow, supplied, given, other, runner, agent, multi>>

\* the handler's input: "context.last_step_id = step.id" is done
Entered ==
    Machine([context EXCEPT !.last_step_id = CurrentStep.id], executed, calls)

DispatchTool ==
    /\ AtDispatch
    /\ CurrentStep.step_type = "tool"
    /\ Advance(RunToolStep(CurrentStep, Entered))

DispatchCondition ==
    /\ AtDispatch
    /\ CurrentStep.step_type = "condition"
    /\ Advance(RunConditionStep(CurrentStep, Entered))

DispatchParallel ==
    /\ AtDispatch
    /\ CurrentStep.step_type = "parallel"
    /\ Advance(RunParallelStep(workflow, CurrentStep, Entered))

DispatchLoop ==
    /\ AtDispatch
    /\ CurrentStep.step_type = "loop"
    /\ Advance(RunLoopStep(workflow, CurrentStep, Entered))

\* "while current_step_id:" ends and run returns the context
Return ==
    /\ pc = "loop"
    /\ current_step_id = ""
    /\ pc' = "returned"
    /\ UNCHANGED <<workflow, supplied, context, current_step_id, visited,
                   raised, executed, calls, given, other, runner, agent, multi>>

---------------------------------------------------------------------------
(* The workflows and contexts the runs are checked on *)

\* the largest max_iterations of a LOOP step
MaxIter == 2

StepIds == {"s1", "s2", "s3"}

\* ids a branch or an on_error may name: the registered ones and one that is not
Targets == StepIds \cup {"zz"}

ToolStep(id, tool_name, tool_params, output_key, on_error, continue_on_error) ==
    [WorkflowStep(id, "tool") EXCEPT
        !.tool_name = tool_name, !.tool_params = tool_params,
        !.output_key = output_key, !.on_error = on_error,
        !.continue_on_error = continue_on_error]

ConditionStep(id, condition, condition_expression, on_true, on_false) ==
    [WorkflowStep(id, "condition") EXCEPT
        !.condition = condition, !.condition_expression = condition_expression,
        !.on_true = on_true, !.on_false = on_false]

ParallelStep(id, parallel_steps) ==
    [WorkflowStep(id, "parallel") EXCEPT !.parallel_steps = parallel_steps]

LoopStep(id, loop_steps, loop_condition, loop_expression, max_iterations) ==
    [WorkflowStep(id, "loop") EXCEPT
        !.loop_steps = loop_steps, !.loop_condition = loop_condition,
        !.loop_expression = loop_expression, !.max_iterations = max_iterations]

Workflow(id, steps, start_step_id) ==
    [id |-> id, steps |-> steps, start_step_id |-> start_step_id]

AddParams ==
    [operation |-> Lit(PyStr("add")), a |-> Lit(PyInt(15)), b |-> Lit(PyInt(27))]

DivideByZeroParams ==
    [operation |-> Lit(PyStr("divide")), a |-> Lit(PyInt(1)), b |-> Lit(PyInt(0))]

NoParams == [k \in {} |-> Lit(None)]

\* (on_error, continue_on_error) settings of the steps below
ErrorWirings ==
    ({""} \cup Targets) \X {FALSE} \cup {<<"", TRUE>>, <<"s2", TRUE>>}

FewErrorWirings == {<<"", FALSE>>, <<"", TRUE>>, <<"s2", FALSE>>}

\* TOOL steps: one that succeeds, one whose execute raises (weather without a
\* location), one whose validation fails, one naming an unregistered tool,
\* one without tool_name
ControlToolSteps(id) ==
    {ToolStep(id, "calculator", AddParams, IF w[1] = "" THEN "sum_result" ELSE "",
              w[1], w[2]) : w \in FewErrorWirings}
    \cup {ToolStep(id, "weather", NoParams, "sf_weather", w[1], w[2]) :
        w \in ErrorWirings}
    \cup {ToolStep(id, "calculator", DivideByZeroParams, "sum_result", w[1], w[2]) :
        w \in FewErrorWirings \cup {<<"s3", TRUE>>}}
    \cup {ToolStep(id, "nosuch", NoParams, "", w[1], w[2]) :
        w \in FewErrorWirings}
    \cup {ToolStep(id, "", NoParams, "", "", FALSE)}

BranchLists == {<< >>} \cup {<<t>> : t \in Targets} \cup {<<"s2", "s3">>}

ControlConditionSteps(id) ==
    {ConditionStep(id, "always_true", "", l, <<"s3">>) : l \in BranchLists}
    \cup {ConditionStep(id, "always_false", "", <<"s3">>, l) :
            l \in {<< >>, <<"s1">>, <<"s2">>}}

ControlSteps(id) == ControlToolSteps(id) \cup ControlConditionSteps(id)

\* the workflow "wf" of the three steps x, y, z registered as s1, s2, s3
Workflow3(x, y, z, start_step_id) ==
    Workflow("wf", [id \in StepIds |-> IF id = "s1" THEN x
                                       ELSE IF id = "s2" THEN y ELSE z],
             start_step_id)

\* members of a PARALLEL or LOOP group
IncrementParams(path) ==
    [operation |-> Lit(PyStr("add")), a |-> Tpl(path), b |-> Lit(PyInt(1))]

LocationParams(path) == [location |-> Tpl(path)]

MemberSteps(id) ==
    {ToolStep(id, "calculator", AddParams, "sum_result", "", FALSE),
     ToolStep(id, "calculator", IncrementParams(<<id, "result">>), "counter", "", FALSE),
     ToolStep(id, "calculator", IncrementParams(<<"context", "counter">>), "counter",
              "", FALSE),
     ToolStep(id, "weather", LocationParams(<<"s2", "result">>), "sf_weather", "", FALSE),
     ToolStep(id, "weather", NoParams, "sf_weather", "s3", FALSE),
     ToolStep(id, "weather", NoParams, "sf_weather", "", TRUE),
     ToolStep(id, "weather", NoParams, "sf_weather", "", FALSE),
     ConditionStep(id, "always_true", "", <<"s3">>, << >>),
     ConditionStep(id, "", "context['context'].get('counter', 0) < 2",
                   << >>, <<"s3">>),
     LoopStep(id, <<"s3">>, "always_true", "", 1),
     ParallelStep(id, <<"s3">>),
     ToolStep(id, "nosuch", NoParams, "", "s3", TRUE)}

MemberLists == {<< >>, <<"s2">>, <<"s2", "s3">>, <<"s3", "s2">>, <<"s2", "zz">>}

\* (loop_condition, loop_expression) settings
LoopPredicates ==
    {<<"always_true", "">>, <<"", "True">>, <<"counter_lt_2", "">>, <<"", "">>}

GroupSteps(id) ==
    {ParallelStep(id, l) : l \in MemberLists}
    \cup {LoopStep(id, l, p[1], p[2], n) :
            l \in MemberLists, p \in LoopPredicates, n \in 0..MaxIter}

\* a context the caller seeded: a counter, and a result of s2 to count from
CounterContext ==
    WorkflowContext(Put(EmptyMap, "counter", PyInt(0)),
                    Put(EmptyMap, "s2", StepResult(PyInt(0), None)))

\* TOOL steps whose one parameter is a template reference
TemplatePaths ==
    {<<"context", "counter">>, <<"context", "sum_result">>, <<"context", "missing">>,
     <<"context", "context">>, <<"context", "step_results">>, <<"context">>,
     <<"context", "counter", "x">>,
     <<"s1", "result">>, <<"s1", "error">>,
     <<"s2", "result">>, <<"s2", "error">>, <<"s2", "other">>,
     <<"s3", "result">>, <<"s2">>, <<"s2", "result", "x">>, <<"s3", "error", "0">>,
     <<"s3", "result", "0">>, <<"s3", "result", "2">>, <<"s3", "result", "x">>,
     <<"s3", "result", "1", "0">>}

TemplateSteps(id) ==
    {ToolStep(id, "weather", LocationParams(path), "sf_weather", "", FALSE) :
        path \in TemplatePaths}
    \cup {ToolStep(id, "calculator", IncrementParams(path), "counter", "", TRUE) :
        path \in TemplatePaths}

\* steps that fail and redirect to the template step s2
RedirectSteps(id) ==
    {ToolStep(id, "weather", NoParams, "", "s2", FALSE),
     ToolStep(id, "calculator", DivideByZeroParams, "", "s2", TRUE)}

SeededData ==
    {EmptyMap,
     Put(EmptyMap, "counter", PyInt(0)),
     Put(Put(EmptyMap, "counter", PyInt(5)), "sum_result", PyFloat(42))}

SeededResults ==
    {EmptyMap,
     Put(EmptyMap, "s2", StepResult(PyFloat(41), None)),
     Put(Put(EmptyMap, "s2", StepResult(None, PyStr("boom"))),
         "s3", StepResult(PyStr("Paris"), None)),
     Put(EmptyMap, "s3", StepResult(PyList(<<PyStr("Paris"), PyStr("Rome")>>), None))}

SeededContexts ==
    {WorkflowContext(d, r) : d \in SeededData, r \in SeededResults}

\* build_sample_workflow of examples/workflow_usage.py
SampleWorkflow ==
    Workflow("calculator_weather_workflow",
        [id \in {"calculate_sum", "check_sum", "weather_sf"} |->
            CASE id = "calculate_sum" ->
                     ToolStep(id, "calculator", AddParams, "sum_result", "", FALSE)
              [] id = "check_sum" ->
                     ConditionStep(id, "", "context.get('sum_result', 0) > 30",
                                   <<"weather_sf">>, << >>)
              [] OTHER ->
                     ToolStep(id, "weather",
                              [location |-> Lit(PyStr("San Francisco, CA"))],
                              "sf_weather", "", FALSE)],
        "calculate_sum")

FreshContext == WorkflowContext(EmptyMap, EmptyMap)

\* no second call of run
NoRun ==
    [supplied |-> FALSE, context |-> FreshContext, given |-> FreshContext,
     current_step_id |-> "", visited |-> << >>, pc |-> "none", raised |-> NoExc]

\* the run is not made through a WorkflowRunner
NoRunner ==
    [enable_logging |-> FALSE, execution_log |-> << >>, pc |-> "none",
     ctx |-> FreshContext]

\* no Agent processes a message
NoAgent == [pc |-> "none"]

\* no Runner coordinates agents
NoMulti == [pc |-> "none"]

\* the caller's choice of workflow and context
Setup(wf, sup, ctx) ==
    /\ workflow = wf
    /\ supplied = sup
    /\ context = ctx
    /\ given = ctx

ControlSetup ==
    \E x \in ControlSteps("s1"), y \in ControlSteps("s2"), z \in ControlSteps("s3") :
        Setup(Workflow3(x, y, z, "s1"), FALSE, FreshContext)

GroupSetup ==
    \E x \in GroupSteps("s1"), y \in MemberSteps("s2"), z \in MemberSteps("s3"),
       sup \in BOOLEAN :
        Setup(Workflow3(x, y, z, "s1"), sup,
              IF sup THEN CounterContext ELSE FreshContext)

TemplateSetup ==
    \E x \in RedirectSteps("s1"), y \in TemplateSteps("s2"),
       start \in {"s1", "s2"}, ctx \in SeededContexts :
        Setup(Workflow3(x, y, ToolStep("s3", "calculator", AddParams, "", "", FALSE),
                        start),
              TRUE, ctx)

SampleSetup ==
    \E sup \in BOOLEAN : Setup(SampleWorkflow, sup, FreshContext)

\* (function, expression) settings of a CONDITION or LOOP predicate: functions
\* that return and one that raises, expressions that evaluate and two that
\* fail (a missing key, a syntax error), both set, neither set
Predicates ==
    {<<"always_true", "">>, <<"always_false", "">>, <<"raises", "">>,
     <<"always_false", "True">>, <<"raises", "True">>,
     <<"", "True">>, <<"", "False">>,
     <<"", "context['context'].get('counter', 0) < 2">>,
     <<"", "context['missing'] > 1">>, <<"", "1 +">>,
     <<"", "">>}

TrueBranches == {<< >>, <<"s2">>, <<"s2", "s3">>}

FalseBranches == {<< >>, <<"s3">>, <<"s3", "s2">>}

PredicateSteps(id) ==
    {ConditionStep(id, p[1], p[2], t, f) :
        p \in Predicates, t \in TrueBranches, f \in FalseBranches}
    \cup {LoopStep(id, <<"s2">>, p[1], p[2], MaxIter) : p \in Predicates}

\* the steps a branch of the predicate step leads to
BranchTargetSteps(id) ==
    {ToolStep(id, "calculator", AddParams, "sum_result", "", FALSE),
     ToolStep(id, "weather", NoParams, "", "", TRUE)}

PredicateSetup ==
    \E x \in PredicateSteps("s1"), y \in BranchTargetSteps("s2"),
       z \in BranchTargetSteps("s3"), d \in SeededData :
        Setup(Workflow3(x, y, z, "s1"), TRUE, WorkflowContext(d, EmptyMap))

\* workflows whose start_step_id is not the id of a step: the empty string
\* and a name no step has
StartSetup ==
    \E x \in ControlToolSteps("s1"), start \in {"", "zz"}, sup \in BOOLEAN :
        Setup(Workflow3(x, ToolStep("s2", "calculator", AddParams, "", "", FALSE),
                        ToolStep("s3", "calculator", AddParams, "", "", FALSE),
                        start),
              sup, FreshContext)

\* the loop counter scenario: a LOOP step of three passes at most whose
\* predicate is always true and whose one member adds 1 to the counter it
\* reads through ${context.counter} and writes it back through output_key
CounterLoopWorkflow ==
    Workflow3(LoopStep("s1", <<"s2">>, "always_true", "", 3),
              ToolStep("s2", "calculator", IncrementParams(<<"context", "counter">>),
                       "counter", "", FALSE),
              ToolStep("s3", "calculator", AddParams, "", "", FALSE),
              "s1")

\* the scenario's context: counter seeded to 0
CounterSeed == WorkflowContext(Put(EmptyMap, "counter", PyInt(0)), EmptyMap)

CounterLoopSetup == Setup(CounterLoopWorkflow, TRUE, CounterSeed)

\* loops whose predicate reads the counter their member increments, on
\* contexts that seed the counter (and the result of s2 it counts from)
CounterSetup ==
    \E p \in {<<"counter_lt_2", "">>,
               <<"", "context['context'].get('counter', 0) < 2">>},
       n \in 0..MaxIter, c \in 0..2, on_error \in {"", "s3"} :
        Setup(Workflow3(LoopStep("s1", <<"s2">>, p[1], p[2], n),
                        ToolStep("s2", "calculator",
                                 IncrementParams(<<"s2", "result">>), "counter",
                                 on_error, FALSE),
                        ToolStep("s3", "calculator", AddParams, "", "", FALSE),
                        "s1"),
              TRUE,
              WorkflowContext(Put(EmptyMap, "counter", PyInt(c)),
                              Put(EmptyMap, "s2", StepResult(PyInt(c), None))))

\* structured parameters: lists and dicts, nested, that mix references
\* with literal leaves
NestedValues ==
    {ListParam(<< >>),
     ListParam(<<Tpl(<<"s2", "result">>), Lit(PyInt(1)), Lit(PyStr("x")),
                 Tpl(<<"s2", "missing">>)>>),
     ListParam(<<Lit(None), Lit(PyBool(TRUE)), Lit(PyStr("context.counter")),
                 ListParam(<<Tpl(<<"context", "context">>), Lit(PyFloat(2))>>)>>),
     DictParam([x |-> Tpl(<<"s2", "result">>), y |-> Lit(PyStr("${"))]),
     DictParam([x |-> ListParam(<<Tpl(<<"s3", "result">>),
                                  DictParam([z |-> Tpl(<<"s2", "error">>),
                                             w |-> Lit(PyBool(FALSE))])>>),
                y |-> DictParam([k \in {} |-> Lit(None)])]),
     ListParam(<<Lit(PyInt(1)), DictParam([x |-> Tpl(<<"s3", "result", "2">>)])>>)}

NestedSteps(id) ==
    {ToolStep(id, "calculator",
              [operation |-> Lit(PyStr("add")), a |-> v, b |-> Tpl(<<"s2", "result">>)],
              "sum_result", "", TRUE) : v \in NestedValues}

NestedSetup ==
    \E x \in NestedSteps("s1"), ctx \in SeededContexts :
        Setup(Workflow3(x, ToolStep("s2", "calculator", AddParams, "", "", FALSE),
                        ToolStep("s3", "calculator", AddParams, "", "", FALSE),
                        "s1"),
              TRUE, ctx)

---------------------------------------------------------------------------
(* Specification *)

\* a group whose CONDITION member s2 starts a nested chain over the TOOL
\* steps s3 and s4: the group, the member, and the two steps of the chain
ChainGroups ==
    {ParallelStep("s1", l) : l \in {<<"s2">>, <<"s2", "s4">>, <<"s3", "s2">>}}
    \cup {LoopStep("s1", l, "always_true", "", n) :
            l \in {<<"s2">>, <<"s2", "s4">>, <<"s3", "s2">>}, n \in 1..MaxIter}

ChainConditions ==
    {ConditionStep("s2", "always_true", "", l, << >>) :
        l \in {<<"s3">>, <<"s1">>, << >>}}
    \cup {ConditionStep("s2", "always_false", "", <<"s3">>, l) :
            l \in {<<"s4">>, << >>}}

ChainTools(id) ==
    {ToolStep(id, "calculator", AddParams, "sum_result", "s1", FALSE)}
    \cup {ToolStep(id, "weather", NoParams, "sf_weather", w[1], w[2]) :
            w \in {<<"", FALSE>>, <<"", TRUE>>, <<"s1", FALSE>>, <<"s2", TRUE>>,
                   <<"s3", FALSE>>, <<"s4", FALSE>>}}

ChainSetup ==
    \E g \in ChainGroups, c \in ChainConditions,
       x \in ChainTools("s3"), y \in ChainTools("s4") :
        Setup(Workflow("wf", [id \in {"s1", "s2", "s3", "s4"} |->
                                 IF id = "s1" THEN g
                                 ELSE IF id = "s2" THEN c
                                 ELSE IF id = "s3" THEN x ELSE y],
                       "s1"),
              FALSE, FreshContext)

Init ==
    /\ \/ ControlSetup
       \/ GroupSetup
       \/ TemplateSetup
       \/ SampleSetup
       \/ PredicateSetup
       \/ StartSetup
       \/ CounterLoopSetup
       \/ CounterSetup
       \/ NestedSetup
       \/ ChainSetup
    /\ current_step_id = ""
    /\ visited = << >>
    /\ pc = "idle"
    /\ raised = NoExc
    /\ executed = << >>
    /\ calls = << >>
    /\ other = NoRun
    /\ runner = NoRunner
    /\ agent = NoAgent
    /\ multi = NoMulti

Next ==
    \/ Run
    \/ CycleDetected
    \/ StepNotFound
    \/ DispatchTool
    \/ DispatchCondition
    \/ DispatchParallel
    \/ DispatchLoop
    \/ Return

Spec == Init /\ [][Next]_vars

---------------------------------------------------------------------------
(* WorkflowRunner.run around one call of Workflow.run.  runner.pc is         *)
(* "called" when run is entered, "running" once it has called workflow.run   *)
(* and "returned" when it has returned runner.ctx.  The workflow_name field  *)
(* of the start event is left out: the workflows of the model carry no name. *)

\* WorkflowRunner._log
Log(execution_log, entry) == Append(execution_log, entry)

StartEvent(wf) == [event |-> "workflow_start", workflow_id |-> wf.id]

\* mutant: the event names the step the run started at
CompleteEventOfStart(wf, ctx) ==
    [event |-> "workflow_complete", workflow_id |-> wf.id,
     last_step_id |-> wf.start_step_id]

CompleteEvent(wf, ctx) ==
    [event |-> "workflow_complete", workflow_id |-> wf.id,
     last_step_id |-> ctx.last_step_id]

\* what earlier calls of run left in the log: nothing, the start of a run
\* that raised, the two events of a run that returned
EarlierLogs ==
    {<< >>,
     <<StartEvent(Workflow("earlier", EmptyMap, "s1"))>>,
     <<StartEvent(Workflow("earlier", EmptyMap, "s1")),
       CompleteEvent(Workflow("earlier", EmptyMap, "s1"),
                     [FreshContext EXCEPT !.last_step_id = "s1"])>>}

\* the first steps of the workflows handed to the runner
RunnerSteps(id) ==
    ControlSteps(id)
    \cup {ParallelStep(id, <<"s2">>), LoopStep(id, <<"s2">>, "always_true", "", 1)}

RunnerInit ==
    /\ \E x \in RunnerSteps("s1"), y \in BranchTargetSteps("s2"), sup \in BOOLEAN :
           Setup(Workflow3(x, y, ToolStep("s3", "calculator", AddParams, "", "s1", FALSE),
                           "s1"),
                 sup, FreshContext)
    /\ current_step_id = ""
    /\ visited = << >>
    /\ pc = "uncalled"
    /\ raised = NoExc
    /\ executed = << >>
    /\ calls = << >>
    /\ other = NoRun
    /\ agent = NoAgent
    /\ multi = NoMulti
    /\ \E enable_logging \in BOOLEAN, execution_log \in EarlierLogs :
           runner = [enable_logging |-> enable_logging,
                     execution_log |-> execution_log,
                     pc |-> "called", ctx |-> FreshContext]

\* WorkflowRunner.run up to its call of workflow.run
RunnerRun ==
    /\ runner.pc = "called"
    /\ pc = "uncalled"
    /\ runner' = [runner EXCEPT
                    !.execution_log = IF runner.enable_logging
                                      THEN Log(@, StartEvent(workflow)) ELSE @,
                    !.pc = "running"]
    /\ pc' = "idle"
    /\ UNCHANGED <<workflow, supplied, context, current_step_id, visited, raised,
                   executed, calls, given, other, agent, multi>>

\* WorkflowRunner.run from the return of workflow.run on
RunnerReturn ==
    /\ runner.pc = "running"
    /\ pc = "returned"
    /\ runner' = [runner EXCEPT
                    !.execution_log = IF runner.enable_logging
                                      THEN Log(@, CompleteEvent(workflow, context))
                                      ELSE @,
                    !.ctx = context,
                    !.pc = "returned"]
    /\ UNCHANGED <<workflow, supplied, context, current_step_id, visited, pc,
                   raised, executed, calls, given, other, agent, multi>>

RunnerNext ==
    \/ RunnerRun
    \/ Run
    \/ CycleDetected
    \/ StepNotFound
    \/ DispatchTool
    \/ DispatchCondition
    \/ DispatchParallel
    \/ DispatchLoop
    \/ Return
    \/ RunnerReturn

RunnerSpec == RunnerInit /\ [][RunnerNext]_vars

---------------------------------------------------------------------------
(* Two calls of Workflow.run on one workflow, in two threads, each with its  *)
(* own WorkflowContext.  The variables of the traversal are those of the     *)
(* thread that is running; other holds the locals and the context of the     *)
(* thread that is not.  A handler reads the workflow and reads and writes    *)
(* its own context only, so threads are switched between passes of the       *)
(* traversal.  The tools are stateless.                                      *)

\* the locals and the context of the running call
Suspended ==
    [supplied |-> supplied, context |-> context, given |-> given,
     current_step_id |-> current_step_id, visited |-> visited, pc |-> pc,
     raised |-> raised]

\* mutant: the two calls work on one context object
SwitchSharingContext ==
    /\ other.pc # "none"
    /\ other' = Suspended
    /\ supplied' = other.supplied
    /\ given' = other.given
    /\ current_step_id' = other.current_step_id
    /\ visited' = other.visited
    /\ pc' = other.pc
    /\ raised' = other.raised
    /\ UNCHANGED <<workflow, context, executed, calls, runner, agent, multi>>

\* the scheduler lets the other thread run
Switch ==
    /\ other.pc # "none"
    /\ other' = Suspended
    /\ supplied' = other.supplied
    /\ context' = other.context
    /\ given' = other.given
    /\ current_step_id' = other.current_step_id
    /\ visited' = other.visited
    /\ pc' = other.pc
    /\ raised' = other.raised
    /\ UNCHANGED <<workflow, executed, calls, runner, agent, multi>>

\* the contexts the two callers supply
CallerContexts ==
    {WorkflowContext(Put(EmptyMap, "counter", PyInt(c)),
                     IF c = 0 THEN EmptyMap
                     ELSE Put(EmptyMap, "s2", StepResult(PyInt(c), None))) :
        c \in 0..2}

\* the second steps of the workflow the two calls run: they read what the
\* context holds
CallerSteps(id) ==
    {ToolStep(id, "calculator", IncrementParams(<<id, "result">>), "counter", "", TRUE),
     ToolStep(id, "calculator", IncrementParams(<<id, "result">>), "counter", "", FALSE)}

ConcurrentInit ==
    /\ \E x \in RunnerSteps("s1"), y \in CallerSteps("s2"),
          ctx1 \in CallerContexts, ctx2 \in CallerContexts :
           /\ Setup(Workflow3(x, y,
                              ToolStep("s3", "calculator", AddParams, "", "s1", FALSE),
                              "s1"),
                    TRUE, ctx1)
           /\ other = [NoRun EXCEPT !.supplied = TRUE, !.context = ctx2,
                                    !.given = ctx2, !.pc = "idle"]
    /\ current_step_id = ""
    /\ visited = << >>
    /\ pc = "idle"
    /\ raised = NoExc
    /\ executed = << >>
    /\ calls = << >>
    /\ runner = NoRunner
    /\ agent = NoAgent
    /\ multi = NoMulti

ConcurrentNext ==
    \/ Switch
    \/ Run
    \/ CycleDetected
    \/ StepNotFound
    \/ DispatchTool
    \/ DispatchCondition
    \/ DispatchParallel
    \/ DispatchLoop
    \/ Return

ConcurrentSpec == ConcurrentInit /\ [][ConcurrentNext]_vars

\* the dispatch of run on step.step_type
RunStep(wf, step, m) ==
    IF step.step_type = "tool" THEN RunToolStep(step, m)
    ELSE IF step.step_type = "condition" THEN RunConditionStep(step, m)
    ELSE IF step.step_type = "parallel" THEN RunParallelStep(wf, step, m)
    ELSE RunLoopStep(wf, step, m)

\* "while current_step_id:" run by one call on its own, from the pass that
\* finds current_step_id = step_id on: how the call ends
RECURSIVE Traverse(_, _, _, _)
Traverse(wf, ctx, step_id, vis) ==
    IF step_id = ""
    THEN [pc |-> "returned", context |-> ctx, raised |-> NoExc]
    ELSE IF InVisited(step_id, vis)
    THEN [pc |-> "raised", context |-> ctx, raised |-> CycleError(wf, step_id)]
    ELSE IF ~ GetStep(wf, step_id).ok
    THEN [pc |-> "raised", context |-> ctx, raised |-> GetStep(wf, step_id).exc]
    ELSE LET m == RunStep(wf, GetStep(wf, step_id).step,
                          Machine([ctx EXCEPT !.last_step_id = step_id],
                                  << >>, << >>))
         IN  IF m.exc # NoExc
             THEN [pc |-> "raised", context |-> m.context, raised |-> m.exc]
             ELSE IF m.diverged
             THEN [pc |-> "hung", context |-> m.context, raised |-> NoExc]
             ELSE Traverse(wf, m.context, m.next, Append(vis, step_id))

\* Workflow.run by one call on its own
RunAlone(wf, sup, ctx) ==
    Traverse(wf, IF sup THEN ctx ELSE WorkflowContext(EmptyMap, EmptyMap),
             wf.start_step_id, << >>)

---------------------------------------------------------------------------
(* Agent.process_message.  A Message is a record [role, content, name,     *)
(* tool_call_id, tool_calls] with "" for None and << >> for no tool calls;  *)
(* a tool call is [id, name, arguments], arguments a dict of values or a    *)
(* JSON text.  The model provider is any function of the history: generate  *)
(* returns one of Responses or raises.                                      *)

Message(role, content, name, tool_call_id, tool_calls) ==
    [role |-> role, content |-> content, name |-> name,
     tool_call_id |-> tool_call_id, tool_calls |-> tool_calls]

ToolCall(id, name, arguments) == [id |-> id, name |-> name, arguments |-> arguments]

\* arguments given as a dict, and as the JSON text of one
DictArgs(params) == [text |-> "", params |-> params]

JsonArgs(text) == [text |-> text, params |-> [k \in {} |-> None]]

\* json.loads on the texts the responses carry: an object, an array, and a
\* text that is not JSON
JsonLoads(text) ==
    CASE text = "{\"operation\": \"add\", \"a\": 1, \"b\": 2}" ->
             Ok(PyDict([operation |-> PyStr("add"), a |-> PyInt(1), b |-> PyInt(2)]))
      [] text = "[1]" -> Ok(PyList(<<PyInt(1)>>))
      [] OTHER -> Raise(Exc("JSONDecodeError",
                            "Expecting property name enclosed in double quotes: "
                            \o "line 1 column 2 (char 1)"))

\* the keyword arguments of execute_tool(tool_name, **tool_args)
KeywordArgs(arguments) ==
    IF arguments.text = "" THEN Ok(PyDict(arguments.params))
    ELSE IF ~ JsonLoads(arguments.text).ok THEN JsonLoads(arguments.text)
    ELSE IF JsonLoads(arguments.text).value.kind # "dict"
    THEN Raise(Exc("TypeError", "agentic.core.agent.Agent.execute_tool() argument "
                          \o "after ** must be a mapping, not list"))
    ELSE JsonLoads(arguments.text)

\* Agent.execute_tool
ExecuteTool(tool_name, kwargs) ==
    IF tool_name \notin ToolNames
    THEN Raise(ToolExecutionError(tool_name, "Tool '" \o tool_name \o "' not found"))
    ELSE IF ~ ToolValidate(tool_name, kwargs)
    THEN Raise(ToolExecutionError(tool_name, "Tool parameter validation failed"))
    ELSE IF ~ ToolExecute(tool_name, kwargs).ok
    THEN Raise(ToolExecutionError(tool_name, ToolExecute(tool_name, kwargs).exc.msg))
    ELSE ToolExecute(tool_name, kwargs)

\* the try block of process_message for one tool call
CallOutcome(tool_call) ==
    IF ~ KeywordArgs(tool_call.arguments).ok THEN KeywordArgs(tool_call.arguments)
    ELSE ExecuteTool(tool_call.name, KeywordArgs(tool_call.arguments).value.map)

\* mutant: the message of a failed call carries the failure as a result
ToolMessageHidesError(tool_call, outcome) ==
    Message("tool", IF outcome.ok THEN Fmt(outcome.value) ELSE outcome.exc.msg,
            tool_call.name, tool_call.id, << >>)

\* the TOOL message appended for a tool call with that outcome
ToolMessage(tool_call, outcome) ==
    Message("tool",
            IF outcome.ok THEN Fmt(outcome.value) ELSE "Error: " \o outcome.exc.msg,
            tool_call.name, tool_call.id, << >>)

\* the messages the for loop over response.tool_calls appends: none for a
\* call without a function name
RECURSIVE ToolMessages(_)
ToolMessages(tool_calls) ==
    IF Len(tool_calls) = 0 THEN << >>
    ELSE IF Head(tool_calls).name = "" THEN ToolMessages(Tail(tool_calls))
    ELSE <<ToolMessage(Head(tool_calls), CallOutcome(Head(tool_calls)))>>
         \o ToolMessages(Tail(tool_calls))

MaxIterationsMessage ==
    Message("assistant", "Maximum iterations reached. Please try a simpler request.",
            "", "", << >>)

\* the tool calls a response may carry
ToolCalls ==
    {ToolCall("c1", "calculator",
              DictArgs([operation |-> PyStr("add"), a |-> PyInt(1), b |-> PyInt(2)])),
     ToolCall("c2", "calculator",
              JsonArgs("{\"operation\": \"add\", \"a\": 1, \"b\": 2}")),
     ToolCall("c3", "calculator",
              DictArgs([operation |-> PyStr("divide"), a |-> PyInt(1), b |-> PyInt(0)])),
     ToolCall("c4", "weather", DictArgs([k \in {} |-> None])),
     ToolCall("c5", "nosuch", DictArgs([k \in {} |-> None])),
     ToolCall("c6", "calculator", JsonArgs("{bad")),
     ToolCall("c7", "calculator", JsonArgs("[1]")),
     ToolCall("c8", "", DictArgs([k \in {} |-> None]))}

\* what generate may return: a final answer, or a request of one tool call,
\* or of a failing call followed by a good one
Responses ==
    {Message("assistant", "The answer is 3", "", "", << >>)}
    \cup {Message("assistant", "", "", "", <<c>>) : c \in ToolCalls}
    \cup {Message("assistant", "", "", "", <<c, d>>) :
            c \in {tc \in ToolCalls : tc.id \in {"c4", "c8"}},
            d \in {tc \in ToolCalls : tc.id = "c1"}}

AgentInit ==
    /\ Setup(Workflow("wf", EmptyMap, "s1"), FALSE, FreshContext)
    /\ current_step_id = ""
    /\ visited = << >>
    /\ pc = "agent"
    /\ raised = NoExc
    /\ executed = << >>
    /\ calls = << >>
    /\ other = NoRun
    /\ runner = NoRunner
    /\ multi = NoMulti
    /\ \E max_iterations \in 0..MaxIter, system_prompt \in {"", "You are helpful."} :
           agent = [max_iterations |-> max_iterations,
                    conversation_history |->
                        IF system_prompt = "" THEN << >>
                        ELSE <<Message("system", system_prompt, "", "", << >>)>>,
                    iterations |-> 0, generated |-> 0, pc |-> "idle",
                    response |-> MaxIterationsMessage, exc |-> NoExc]

\* process_message is called: the message joins the history
ProcessMessage ==
    /\ agent.pc = "idle"
    /\ agent' = [agent EXCEPT
                   !.conversation_history =
                       Append(@, Message("user", "What is 1 + 2?", "", "", << >>)),
                   !.iterations = 0,
                   !.pc = "loop"]
    /\ UNCHANGED <<workflow, supplied, context, current_step_id, visited, pc,
                   raised, executed, calls, given, other, runner, multi>>

\* one pass of the while loop in which generate returns
Iterate ==
    /\ agent.pc = "loop"
    /\ agent.iterations < agent.max_iterations
    /\ \E response \in Responses :
          agent' = [agent EXCEPT
                      !.iterations = @ + 1,
                      !.generated = @ + 1,
                      !.conversation_history =
                          Append(@, response) \o ToolMessages(response.tool_calls),
                      !.pc = IF Len(response.tool_calls) > 0 THEN "loop" ELSE "returned",
                      !.response = IF Len(response.tool_calls) > 0 THEN @ ELSE response]
    /\ UNCHANGED <<workflow, supplied, context, current_step_id, visited, pc,
                   raised, executed, calls, given, other, runner, multi>>

\* one pass in which generate raises
GenerateRaises ==
    /\ agent.pc = "loop"
    /\ agent.iterations < agent.max_iterations
    /\ agent' = [agent EXCEPT
                   !.iterations = @ + 1,
                   !.generated = @ + 1,
                   !.pc = "raised",
                   !.exc = Exc("ProviderError", "generate failed")]
    /\ UNCHANGED <<workflow, supplied, context, current_step_id, visited, pc,
                   raised, executed, calls, given, other, runner, multi>>

\* the while loop ends at the bound
MaxIterationsReached ==
    /\ agent.pc = "loop"
    /\ ~ (agent.iterations < agent.max_iterations)
    /\ agent' = [agent EXCEPT !.pc = "returned", !.response = MaxIterationsMessage]
    /\ UNCHANGED <<workflow, supplied, context, current_step_id, visited, pc,
                   raised, executed, calls, given, other, runner, multi>>

AgentNext ==
    \/ ProcessMessage
    \/ Iterate
    \/ GenerateRaises
    \/ MaxIterationsReached

AgentSpec == AgentInit /\ [][AgentNext]_vars

---------------------------------------------------------------------------

(* Runner.run_multi_agent.  The content of a message is a sequence of       *)
(* characters here, so that lower() and the substring test of               *)
(* _should_continue are computed.  Agents are numbered from 0; what an      *)
(* agent answers, and whether it raises, is not decided by the runner.      *)

LowerOf ==
    [A |-> "a", B |-> "b", C |-> "c", D |-> "d", E |-> "e", F |-> "f", G |-> "g",
     H |-> "h", I |-> "i", J |-> "j", K |-> "k", L |-> "l", M |-> "m", N |-> "n",
     O |-> "o", P |-> "p", Q |-> "q", R |-> "r", S |-> "s", T |-> "t", U |-> "u",
     V |-> "v", W |-> "w", X |-> "x", Y |-> "y", Z |-> "z"]

\* str.lower
Lower(content) ==
    [i \in 1..Len(content) |->
        IF content[i] \in DOMAIN LowerOf THEN LowerOf[content[i]] ELSE content[i]]

\* signal in content
Contains(content, signal) ==
    \E i \in 1..(Len(content) - Len(signal) + 1) :
        SubSeq(content, i, i + Len(signal) - 1) = signal

StopSignals ==
    {<<"d", "o", "n", "e">>,
     <<"c", "o", "m", "p", "l", "e", "t", "e">>,
     <<"f", "i", "n", "i", "s", "h", "e", "d">>,
     <<"e", "n", "d">>}

\* Runner._should_continue
ShouldContinue(message) ==
    \/ Len(message.tool_calls) > 0
    \/ ~ \E signal \in StopSignals : Contains(Lower(message.content), signal)

\* mutant: the default routing always selects the first agent
RoundRobinFirst(current_agent_idx, agents) == 0

\* the default routing_strategy, for a list of agents that is not empty
RoundRobin(current_agent_idx, agents) == current_agent_idx % agents

\* Runner._log when logging is enabled
MultiLog(m, entry) ==
    IF m.enable_logging THEN [m EXCEPT !.execution_log = Append(@, entry)] ELSE m

\* what an agent may answer
Contents ==
    {<<"D", "o", "n", "e">>,
     <<"f", "r", "i", "e", "n", "d">>,
     <<"o", "k">>,
     << >>}

AgentResponses ==
    {Message("assistant", content, "", "", << >>) : content \in Contents}
    \cup {Message("assistant", <<"D", "o", "n", "e">>, "", "",
                  <<ToolCall("c4", "weather", DictArgs([k \in {} |-> None]))>>)}

\* what the configured error_handler may return
ErrorResponses ==
    {Message("assistant", content, "", "", << >>) :
        content \in {<<"o", "k">>, <<"D", "o", "n", "e">>}}

MultiInit ==
    /\ Setup(Workflow("wf", EmptyMap, "s1"), FALSE, FreshContext)
    /\ current_step_id = ""
    /\ visited = << >>
    /\ pc = "multi"
    /\ raised = NoExc
    /\ executed = << >>
    /\ calls = << >>
    /\ other = NoRun
    /\ runner = NoRunner
    /\ agent = NoAgent
    /\ \E agents \in 0..2, max_rounds \in 0..(MaxIter + 1),
          enable_logging \in BOOLEAN, error_handler \in BOOLEAN :
           multi = [agents |-> agents, max_rounds |-> max_rounds,
                    enable_logging |-> enable_logging,
                    error_handler |-> error_handler,
                    execution_log |-> << >>, messages |-> << >>,
                    current_message |-> Message("user", <<"h", "i">>, "", "", << >>),
                    current_agent_idx |-> 0, rounds |-> 0, selected |-> << >>,
                    pc |-> "idle", exc |-> NoExc]

\* run_multi_agent is called without a routing_strategy
RunMultiAgent ==
    /\ multi.pc = "idle"
    /\ multi' = MultiLog([multi EXCEPT !.pc = "loop"], [event |-> "multi_agent_start"])
    /\ UNCHANGED <<workflow, supplied, context, current_step_id, visited, pc,
                   raised, executed, calls, given, other, runner, agent>>

\* the break and the exit of the while loop: the completion is logged and
\* the messages are returned
Returned(m) ==
    MultiLog([m EXCEPT !.pc = "returned"],
             [event |-> "multi_agent_complete", rounds |-> m.rounds])

\* the selected agent's part of a round, up to the try block
Selected(m) ==
    LET selection == RoundRobin(m.current_agent_idx, m.agents)
    IN  MultiLog([m EXCEPT !.rounds = @ + 1,
                           !.current_agent_idx = @ + 1,
                           !.selected = Append(@, [agent |-> selection,
                                                   raised |-> FALSE])],
                 [event |-> "agent_selected", agent |-> selection,
                  round |-> m.rounds + 1])

\* a round with an empty list of agents: the routing divides by zero
RoutingFails ==
    /\ multi.pc = "loop"
    /\ multi.rounds < multi.max_rounds
    /\ multi.agents = 0
    /\ multi' = [multi EXCEPT !.rounds = @ + 1,
                              !.pc = "raised",
                              !.exc = Exc("ZeroDivisionError",
                                          "integer modulo by zero")]
    /\ UNCHANGED <<workflow, supplied, context, current_step_id, visited, pc,
                   raised, executed, calls, given, other, runner, agent>>

\* a round in which the selected agent answers
Round ==
    /\ multi.pc = "loop"
    /\ multi.rounds < multi.max_rounds
    /\ multi.agents > 0
    /\ \E response \in AgentResponses :
          LET m == [Selected(multi) EXCEPT !.messages = Append(@, response)]
          IN  multi' = IF ShouldContinue(response)
                       THEN [m EXCEPT !.current_message = response]
                       ELSE Returned(m)
    /\ UNCHANGED <<workflow, supplied, context, current_step_id, visited, pc,
                   raised, executed, calls, given, other, runner, agent>>

\* a round in which the selected agent raises
RoundRaises ==
    /\ multi.pc = "loop"
    /\ multi.rounds < multi.max_rounds
    /\ multi.agents > 0
    /\ \E error_response \in ErrorResponses :
          LET s == Selected(multi)
              m == MultiLog([s EXCEPT !.selected[Len(s.selected)].raised = TRUE],
                            [event |-> "agent_error", error |-> "agent failed"])
          IN  multi' = IF multi.error_handler
                       THEN [m EXCEPT !.messages = Append(@, error_response),
                                      !.current_message = error_response]
                       ELSE Returned(m)
    /\ UNCHANGED <<workflow, supplied, context, current_step_id, visited, pc,
                   raised, executed, calls, given, other, runner, agent>>

\* the while loop ends at max_rounds
RoundsExhausted ==
    /\ multi.pc = "loop"
    /\ ~ (multi.rounds < multi.max_rounds)
    /\ multi' = Returned(multi)
    /\ UNCHANGED <<workflow, supplied, context, current_step_id, visited, pc,
                   raised, executed, calls, given, other, runner, agent>>

MultiNext ==
    \/ RunMultiAgent
    \/ RoutingFails
    \/ Round
    \/ RoundRaises
    \/ RoundsExhausted

MultiSpec == MultiInit /\ [][MultiNext]_vars

---------------------------------------------------------------------------

(* Building a workflow: add_step calls on a workflow constructed without steps *)

\* the steps a caller registers
BuildSteps == UNION {MemberSteps(id) : id \in StepIds}

BuildInit ==
    /\ Setup(Workflow("wf", EmptyMap, "s1"), FALSE, FreshContext)
    /\ current_step_id = ""
    /\ visited = << >>
    /\ pc = "building"
    /\ raised = NoExc
    /\ executed = << >>
    /\ calls = << >>
    /\ other = NoRun
    /\ runner = NoRunner
    /\ agent = NoAgent
    /\ multi = NoMulti

\* one call of add_step; raised is what that call raised (NoExc when it returned)
AddStepCall ==
    /\ pc = "building"
    /\ \E step \in BuildSteps :
           /\ workflow' = AddStep(workflow, step).workflow
           /\ raised' = AddStep(workflow, step).exc
    /\ UNCHANGED <<supplied, context, current_step_id, visited, pc, executed,
                   calls, given, other, runner, agent, multi>>

BuildNext == AddStepCall

BuildSpec == BuildInit /\ [][BuildNext]_vars

---------------------------------------------------------------------------
(* Properties *)

Last(seq) == seq[Len(seq)]

\* the step the top-level traversal dispatched last, when it is registered
LastVisited == workflow.steps[Last(visited)]

HasLastVisited == Len(visited) > 0 /\ Last(visited) \in DOMAIN workflow.steps

\* the top-level traversal has just run the TOOL handler on its last visited
\* step, and the handler got as far as validating the parameters
TopToolRan ==
    /\ HasLastVisited
    /\ LastVisited.step_type = "tool"
    /\ Len(calls) > 0
    /\ Last(calls).step_id = Last(visited)
    /\ Last(executed) = Last(visited)

TopToolFailed == TopToolRan /\ ~ Last(calls).ok

TopToolSucceeded == TopToolRan /\ Last(calls).ok

\* step_results holds exactly this entry for the step
HasEntry(ctx, step_id, entry) ==
    /\ step_id \in DOMAIN ctx.step_results
    /\ ctx.step_results[step_id] = entry

\* the entry a failed TOOL step leaves in step_results
IsErrorEntry(ctx, step_id) ==
    /\ step_id \in DOMAIN ctx.step_results
    /\ ctx.step_results[step_id].result = None
    /\ ctx.step_results[step_id].error.kind = "str"

\* C1: whenever the next current step id of Workflow.run is one the top-level
\* traversal has already dispatched in this call, the run raises the cycle
\* error naming that id, and the step is not executed again: no handler
\* runs, no tool is called and the context stays as it is.
C1_CycleGuard ==
    [][(pc = "loop" /\ current_step_id # "" /\ current_step_id \in Range(visited))
        => /\ pc' = "raised"
           /\ raised' = CycleError(workflow, current_step_id)
           /\ context' = context
           /\ executed' = executed
           /\ calls' = calls
           /\ visited' = visited]_vars

\* a cycle through three steps was closed and reported
C1_Witness ==
    /\ pc = "raised"
    /\ raised = CycleError(workflow, current_step_id)
    /\ Len(visited) = 3
    /\ \E i \in 1..3 : workflow.steps[visited[i]].step_type = "condition"
    /\ \E i \in 1..3 : workflow.steps[visited[i]].step_type = "tool"

\* seq repeated n times
RECURSIVE Repeat(_, _)
Repeat(seq, n) == IF n <= 0 THEN << >> ELSE seq \o Repeat(seq, n - 1)

\* the continuation predicate of the LOOP step is always true
AlwaysTrue(step) ==
    \/ step.loop_condition = "always_true"
    \/ step.loop_condition = "" /\ step.loop_expression = "True"

\* the traversal started at a LOOP step whose predicate is always true and
\* whose members are registered TOOL steps, the handler has returned and
\* every tool call of the run succeeded
LoopOfToolsDone ==
    /\ pc \in {"loop", "returned"}
    /\ Len(visited) = 1
    /\ HasLastVisited
    /\ LastVisited.step_type = "loop"
    /\ AlwaysTrue(LastVisited)
    /\ \A i \in 1..Len(LastVisited.loop_steps) :
          /\ LastVisited.loop_steps[i] \in DOMAIN workflow.steps
          /\ workflow.steps[LastVisited.loop_steps[i]].step_type = "tool"
    /\ \A i \in 1..Len(calls) : calls[i].ok

\* C2: a LOOP step with max_iterations = N and an always-true continuation
\* predicate whose member TOOL steps all succeed executes its body, the ids
\* of loop_steps in order, exactly N times: the steps executed by the run
\* are the LOOP step followed by N copies of loop_steps, one tool call each.
C2_LoopBounded ==
    LoopOfToolsDone
    => /\ executed = <<LastVisited.id>>
                     \o Repeat(LastVisited.loop_steps, LastVisited.max_iterations)
       /\ Len(calls) = LastVisited.max_iterations * Len(LastVisited.loop_steps)

\* a loop over two different members ran all its MaxIter passes
C2_Witness ==
    /\ LoopOfToolsDone
    /\ LastVisited.max_iterations = MaxIter
    /\ Len(LastVisited.loop_steps) = 2
    /\ LastVisited.loop_steps[1] # LastVisited.loop_steps[2]
    /\ Len(calls) = 2 * MaxIter

\* the message a failed call stores: str(exc) of the validation error or of
\* the exception execute raised
FailureMessage(call) ==
    LET tool_name == workflow.steps[call.step_id].tool_name
    IN  IF ~ call.valid
        THEN ToolExecutionError(tool_name,
                 "Validation failed for tool '" \o tool_name \o "' in step '"
                 \o call.step_id \o "'").msg
        ELSE ToolExecute(tool_name, call.params).exc.msg

\* the top-level traversal has just seen its TOOL step fail with on_error set
FailedWithOnError == TopToolFailed /\ LastVisited.on_error # ""

\* C3: when a TOOL step S dispatched by the top-level traversal fails (its
\* tool raises or its validation fails) and has on_error = X, then
\* step_results[S.id] is {result: none, error: message}, X is the next
\* current step id, and the next id the traversal dispatches is X.
C3_ErrorRouting ==
    [][/\ FailedWithOnError'
          => /\ HasEntry(context', Last(visited'),
                    StepResult(None, PyStr(FailureMessage(Last(calls')))))
             /\ current_step_id' = LastVisited'.on_error
             /\ raised' \in {NoExc, CycleError(workflow, LastVisited'.on_error)}
       /\ (FailedWithOnError /\ visited' # visited)
          => Last(visited') = LastVisited.on_error]_vars

\* a failed step s1 with on_error = s3 was followed by the dispatch of s3
C3_Witness ==
    /\ Len(visited) = 2
    /\ visited[1] = "s1" /\ visited[2] = "s3"
    /\ workflow.steps["s1"].step_type = "tool"
    /\ workflow.steps["s1"].on_error = "s3"
    /\ Len(calls) > 0 /\ calls[1].step_id = "s1" /\ ~ calls[1].ok
    /\ IsErrorEntry(context, "s1")

\* the top-level traversal has just seen its TOOL step fail with
\* continue_on_error set and no on_error
FailedWithContinue ==
    /\ TopToolFailed
    /\ LastVisited.on_error = ""
    /\ LastVisited.continue_on_error

\* C4: when a TOOL step dispatched at top level with continue_on_error = true
\* and no on_error fails, Workflow.run ends normally: the error is recorded
\* in step_results[id], there is no next step, nothing is raised, and the
\* only step left is the return of the unchanged context.
C4_SwallowOnContinue ==
    [][/\ FailedWithContinue'
          => /\ HasEntry(context', Last(visited'),
                    StepResult(None, PyStr(FailureMessage(Last(calls')))))
             /\ current_step_id' = ""
             /\ raised' = NoExc
             /\ pc' \in {"loop", "returned"}
       /\ (FailedWithContinue /\ pc = "loop")
          => /\ pc' = "returned"
             /\ UNCHANGED <<context, visited, executed, calls>>]_vars

\* the run returned after swallowing the failure of its first step
C4_Witness ==
    /\ FailedWithContinue
    /\ pc = "returned"
    /\ visited = <<"s1">>
    /\ IsErrorEntry(context, "s1")

\* C5 (the claim as stated): whenever a TOOL step fails, step_results[id] is
\* {result: none, error: message} and last_result is cleared, whichever of
\* the three outcomes follows; after a fatal failure the error has left
\* Workflow.run and the context holds the error entry of the failed step.
C5_ErrorAlwaysRecorded ==
    TopToolFailed
    => /\ IsErrorEntry(context, Last(visited))
       /\ context.last_result = None
       /\ (LastVisited.on_error = "" /\ ~ LastVisited.continue_on_error)
          => (pc = "raised" /\ raised # NoExc)

\* C6: when the tool of a TOOL step returns r, the handler leaves
\* step_results[step.id] = {result: r, error: none} and last_result = r, and
\* context.data is the data before with data[output_key] = r if output_key is
\* set, and the data before unchanged if it is not.
C6_SuccessRecorded ==
    /\ \A i \in 1..Len(calls) :
          calls[i].ok =>
             LET call == calls[i]
                 step == workflow.steps[call.step_id]
                 r == ToolExecute(step.tool_name, call.params).value
             IN  /\ HasEntry(call.after, step.id, StepResult(r, None))
                 /\ call.after.last_result = r
                 /\ call.after.data =
                       IF step.output_key # ""
                       THEN Put(call.before.data, step.output_key, r)
                       ELSE call.before.data
    /\ TopToolSucceeded => context = Last(calls).after

\* one run held a successful call that wrote its output_key into the data
\* over an earlier value
C6_Witness ==
    \E i \in 1..Len(calls) :
        /\ calls[i].ok
        /\ workflow.steps[calls[i].step_id].output_key = "counter"
        /\ "counter" \in DOMAIN calls[i].before.data
        /\ calls[i].after.data["counter"] # calls[i].before.data["counter"]
        /\ context.data = calls[i].after.data

C8_SampleScenario ==
    (workflow = SampleWorkflow /\ pc \in {"returned", "raised", "hung"})
    => /\ pc = "returned"
       /\ "sum_result" \in DOMAIN context.data
       /\ PyEq(context.data["sum_result"], PyInt(42))
       /\ "check_sum" \in Range(executed)
       /\ "weather_sf" \in DOMAIN context.step_results
       /\ context.last_step_id = "weather_sf"

\* the template parameters of the step of a call: the keys whose value is a
\* reference of two segments
TemplateKeys(call) ==
    {key \in DOMAIN workflow.steps[call.step_id].tool_params :
        /\ workflow.steps[call.step_id].tool_params[key].tpl
        /\ Len(workflow.steps[call.step_id].tool_params[key].path) = 2}

PathOf(call, key) == workflow.steps[call.step_id].tool_params[key].path

\* C9 (the claim as stated): a reference ${context.k} in tool_params
\* resolves, when the TOOL handler runs, to context.data[k] if k is a key of
\* context.data and to no value otherwise.
C9_ContextTemplate ==
    \A i \in 1..Len(calls) : \A key \in TemplateKeys(calls[i]) :
        PathOf(calls[i], key)[1] = "context"
        => calls[i].params[key] =
              Get(calls[i].before.data, PathOf(calls[i], key)[2])

\* the calls of step A before call i
EarlierCalls(A, i) == {j \in 1..(i - 1) : calls[j].step_id = A}

\* C10: a reference ${A.f} resolves to field f of the entry step_results
\* holds for A when the TOOL handler runs, and to no value when there is no
\* entry (A has not executed) or no such field; once A has executed in this
\* run, ${A.result} is the result of its most recent execution (none if that
\* execution failed) and ${A.error} its error.
C10_StepTemplate ==
    \A i \in 1..Len(calls) : \A key \in TemplateKeys(calls[i]) :
        LET A == PathOf(calls[i], key)[1]
            f == PathOf(calls[i], key)[2]
            v == calls[i].params[key]
            entries == calls[i].before.step_results
        IN  A # "context"
            => /\ v = IF A \in DOMAIN entries /\ f \in {"result", "error"}
                      THEN entries[A][f] ELSE None
               /\ EarlierCalls(A, i) # {}
                  => LET j == CHOOSE k \in EarlierCalls(A, i) :
                                 \A l \in EarlierCalls(A, i) : l <= k
                     IN  /\ f = "result" => v = calls[j].after.last_result
                         /\ f = "error"
                            => v = IF calls[j].ok THEN None
                                   ELSE PyStr(FailureMessage(calls[j]))

\* a step read, through ${s2.result}, the result an earlier successful
\* execution of s2 stored in this run
C10_Witness ==
    \E i \in 1..Len(calls) : \E key \in TemplateKeys(calls[i]) :
        /\ PathOf(calls[i], key) = <<"s2", "result">>
        /\ \E j \in EarlierCalls("s2", i) : calls[j].ok
        /\ calls[i].params[key] = PyFloat(42)


\* the positions of executed at which the TOOL handler of a step naming a
\* registered tool ran
RegisteredToolRuns ==
    {i \in 1..Len(executed) :
        /\ workflow.steps[executed[i]].step_type = "tool"
        /\ workflow.steps[executed[i]].tool_name \in ToolNames}

\* the reference names a step without a ledger entry, or a key its entry lacks
Unresolvable(path, step_results) ==
    /\ path[1] # "context"
    /\ \/ path[1] \notin DOMAIN step_results
       \/ Len(path) >= 2 /\ path[2] \notin DOMAIN step_results[path[1]]

\* C11: template resolution never raises: every run of the TOOL handler of a
\* step naming a registered tool gets past the resolution of its parameters
\* to tool validation (it has its history entry), whatever its references
\* are - a list segment past the end of the list included -, and a reference
\* to an unknown step id or to a missing key resolved to None.
C11_ResolutionNeverRaises ==
    /\ Cardinality(RegisteredToolRuns) = Len(calls)
    /\ raised.type # "IndexError"
    /\ \A i \in 1..Len(calls) : \A key \in TemplateKeys(calls[i]) :
           Unresolvable(PathOf(calls[i], key), calls[i].before.step_results)
               => calls[i].params[key] = None


\* the top-level traversal has just run the CONDITION handler on its last
\* visited step
TopConditionRan ==
    /\ HasLastVisited
    /\ LastVisited.step_type = "condition"
    /\ Len(executed) > 0
    /\ Last(executed) = Last(visited)

\* the top-level traversal has just run the LOOP handler on its last visited
\* step
TopLoopRan ==
    /\ HasLastVisited
    /\ LastVisited.step_type = "loop"
    /\ Len(executed) > 0

\* evaluating the predicate (the function when one is set, else the
\* expression when one is set) fails in this context
PredicateFails(fn, expression, ctx) ==
    IF fn # "" THEN ~ CallPredicate(fn, Wrapper(ctx)).ok
    ELSE expression # "" /\ ~ EvalExpression(expression, Wrapper(ctx)).ok

\* C12: a failing predicate, function or expression, never makes Workflow.run
\* raise and counts as false: a CONDITION step dispatched at top level whose
\* predicate fails takes on_false (its single id is the next step, or the
\* traversal ends when it is empty), and a LOOP step dispatched at top level
\* whose predicate fails raises nothing and runs no member.
C12_FailClosed ==
    /\ ( /\ TopConditionRan
          /\ PredicateFails(LastVisited.condition, LastVisited.condition_expression,
                            context)
          /\ Len(LastVisited.on_false) <= 1 )
       => /\ current_step_id = IF Len(LastVisited.on_false) = 0 THEN ""
                               ELSE LastVisited.on_false[1]
          /\ raised = NoExc
    /\ ( /\ TopLoopRan
          /\ PredicateFails(LastVisited.loop_condition, LastVisited.loop_expression,
                            context) )
       => /\ raised = NoExc
          /\ executed = <<Last(visited)>>


\* the predicate of the last visited CONDITION step returns in this context
ConditionEvaluates == EvaluateCondition(LastVisited, Wrapper(context)).ok

\* the branch list its value selects
SelectedBranch ==
    IF EvaluateCondition(LastVisited, Wrapper(context)).truth
    THEN LastVisited.on_true ELSE LastVisited.on_false

\* the name of that list
SelectedBranchName ==
    IF EvaluateCondition(LastVisited, Wrapper(context)).truth
    THEN "on_true" ELSE "on_false"

\* C13: a CONDITION step dispatched at top level whose condition evaluates
\* selects on_true when the value is true and on_false when it is not; when
\* the selected list is unset or empty there is no next step and the only
\* step left is the normal return of the context; when it holds exactly one
\* id, that id is the next current step id and the next step dispatched.
C13_ConditionBranch ==
    [][/\ (TopConditionRan' /\ ConditionEvaluates')
          => /\ Len(SelectedBranch') = 0
                   => /\ current_step_id' = ""
                      /\ raised' = NoExc
                      /\ pc' \in {"loop", "returned"}
             /\ Len(SelectedBranch') = 1
                   => /\ current_step_id' = SelectedBranch'[1]
                      /\ raised' \in {NoExc, CycleError(workflow, SelectedBranch'[1])}
       /\ (TopConditionRan /\ ConditionEvaluates /\ visited' # visited)
          => /\ Len(SelectedBranch) = 1
             /\ Last(visited') = SelectedBranch[1]
       /\ (TopConditionRan /\ ConditionEvaluates /\ Len(SelectedBranch) = 0
              /\ pc = "loop")
          => /\ pc' = "returned"
             /\ context' = context]_vars

\* a CONDITION step whose expression is false was followed by the dispatch of
\* the single id of on_false, and one whose selected list is empty by the
\* normal return
C13_Witness ==
    \/ /\ visited = <<"s1", "s3">>
       /\ workflow.steps["s1"].step_type = "condition"
       /\ workflow.steps["s1"].condition = ""
       /\ workflow.steps["s1"].condition_expression = "False"
       /\ workflow.steps["s1"].on_false = <<"s3">>
       /\ workflow.steps["s1"].on_true = <<"s2">>
       /\ pc = "returned"
    \/ /\ visited = <<"s1">>
       /\ workflow.steps["s1"].step_type = "condition"
       /\ workflow.steps["s1"].condition = "always_true"
       /\ workflow.steps["s1"].on_true = << >>
       /\ workflow.steps["s1"].on_false = <<"s3">>
       /\ pc = "returned"


\* the error _run_condition_step raises for a branch of several ids
MultipleNextSteps(step_id, branch) ==
    Exc("ValueError", "Step '" \o step_id \o "' " \o branch
                      \o " has multiple next steps defined. "
                      \o "Use a dedicated PARALLEL step for fan-out.")

\* C14 as stated: a CONDITION step dispatched at top level in which on_true or
\* on_false holds two or more ids makes Workflow.run raise the configuration
\* error, whichever branch its condition selects.
C14_AnyBranchLimit ==
    ( /\ TopConditionRan
      /\ ConditionEvaluates
      /\ Len(LastVisited.on_true) >= 2 \/ Len(LastVisited.on_false) >= 2 )
    => /\ pc = "raised"
       /\ raised \in {MultipleNextSteps(Last(visited), "on_true"),
                      MultipleNextSteps(Last(visited), "on_false")}

\* C14 amended: a CONDITION step dispatched at top level whose condition
\* evaluates and selects a branch of two or more ids makes Workflow.run raise
\* the configuration error naming the step and that branch, and no step
\* executes after the CONDITION step; ids in the branch not selected count
\* for nothing.
C14_SelectedBranchLimit ==
    [][/\ (TopConditionRan' /\ ConditionEvaluates' /\ Len(SelectedBranch') >= 2)
          => /\ pc' = "raised"
             /\ raised' = MultipleNextSteps(Last(visited'), SelectedBranchName')
             /\ Last(executed') = Last(visited')
       /\ (TopConditionRan /\ ConditionEvaluates /\ Len(SelectedBranch) >= 2)
          => /\ executed' = executed
             /\ visited' = visited
             /\ context' = context]_vars

\* a false condition with two ids in on_false raised the configuration error
C14_Witness ==
    /\ pc = "raised"
    /\ visited = <<"s1">>
    /\ executed = <<"s1">>
    /\ workflow.steps["s1"].step_type = "condition"
    /\ workflow.steps["s1"].condition = "always_false"
    /\ workflow.steps["s1"].on_false = <<"s3", "s2">>
    /\ raised = MultipleNextSteps("s1", "on_false")


\* the run started at a PARALLEL step, whose handler has run
TopParallelRan ==
    /\ HasLastVisited
    /\ visited = <<Last(visited)>>
    /\ LastVisited.step_type = "parallel"
    /\ Len(executed) > 0

\* every id of the list names a TOOL step with a registered tool
AllToolMembers(ids) ==
    \A i \in 1..Len(ids) :
        /\ ids[i] \in DOMAIN workflow.steps
        /\ workflow.steps[ids[i]].step_type = "tool"
        /\ workflow.steps[ids[i]].tool_name \in ToolNames

\* the entry {result, error} a run of the TOOL handler stores
EntryOf(call) ==
    IF call.ok THEN StepResult(call.after.last_result, None)
    ELSE StepResult(None, PyStr(FailureMessage(call)))

\* C15: a PARALLEL step runs its members one at a time in listed order: the
\* TOOL members run in the order of parallel_steps, each starts from the
\* context the one before it left, and that context already holds the entry
\* of the one before it.  The handler yields no next step: after a PARALLEL
\* step dispatched at top level has returned there is no current step id and
\* the only step left is the return of the context as it is.
C15_ParallelInOrder ==
    [][/\ (TopParallelRan' /\ AllToolMembers(LastVisited'.parallel_steps))
          => /\ Len(executed') <= Len(LastVisited'.parallel_steps) + 1
             /\ \A i \in 2..Len(executed') :
                    executed'[i] = LastVisited'.parallel_steps[i - 1]
             /\ \A i \in 1..Len(calls') :
                    /\ calls'[i].step_id = LastVisited'.parallel_steps[i]
                    /\ i < Len(calls')
                          => /\ HasEntry(calls'[i].after, calls'[i].step_id,
                                         EntryOf(calls'[i]))
                             /\ calls'[i + 1].before = calls'[i].after
             /\ pc' \notin {"raised", "hung"}
                   => Len(calls') = Len(LastVisited'.parallel_steps)
       /\ (TopParallelRan' /\ pc' \notin {"raised", "hung"})
          => current_step_id' = ""
       /\ (TopParallelRan /\ pc = "loop")
          => /\ pc' = "returned"
             /\ context' = context
             /\ executed' = executed
             /\ visited' = visited]_vars

\* a PARALLEL step ran the TOOL members s3 and s2 in this order, the second
\* one failed and named s3 as its on_error, and the run returned
C15_Witness ==
    /\ pc = "returned"
    /\ visited = <<"s1">>
    /\ workflow.steps["s1"].step_type = "parallel"
    /\ workflow.steps["s1"].parallel_steps = <<"s3", "s2">>
    /\ executed = <<"s1", "s3", "s2">>
    /\ Len(calls) = 2
    /\ calls[1].ok /\ ~ calls[2].ok
    /\ calls[2].next = "s3"
    /\ calls[2].before = calls[1].after


\* the run started at a PARALLEL or LOOP step, whose handler has run
TopGroupRan ==
    /\ HasLastVisited
    /\ visited = <<Last(visited)>>
    /\ LastVisited.step_type \in {"parallel", "loop"}
    /\ Len(executed) > 0

\* the member list of the group step
MembersOf(step) ==
    IF step.step_type = "parallel" THEN step.parallel_steps ELSE step.loop_steps

IsGroup(step_id) ==
    /\ step_id \in DOMAIN workflow.steps
    /\ workflow.steps[step_id].step_type \in {"parallel", "loop"}

IsRegisteredTool(step_id) ==
    /\ step_id \in DOMAIN workflow.steps
    /\ workflow.steps[step_id].step_type = "tool"
    /\ workflow.steps[step_id].tool_name \in ToolNames

\* the members of the list that are TOOL steps, in order
ToolOnly(ids) == SelectSeq(ids, LAMBDA id : IsRegisteredTool(id))

\* the group step the run started at lists a LOOP or PARALLEL step among
\* members that are otherwise TOOL steps
NestsGroup ==
    /\ TopGroupRan
    /\ \A i \in 1..Len(MembersOf(LastVisited)) :
           IsGroup(MembersOf(LastVisited)[i])
           \/ IsRegisteredTool(MembersOf(LastVisited)[i])
    /\ \E i \in 1..Len(MembersOf(LastVisited)) : IsGroup(MembersOf(LastVisited)[i])

\* the passes a group step makes over its members, at most
MaxPasses(step) == IF step.step_type = "parallel" THEN 1 ELSE step.max_iterations

\* C16: a LOOP step listed in parallel_steps, or a PARALLEL step listed in
\* loop_steps (or any LOOP or PARALLEL member of a group), is passed over:
\* the handlers that run inside the group are those of its TOOL members
\* only, in listed order in every pass, so no member of the nested step runs
\* on the nested step's account; the nested step gets no step_results
\* entry, and the context is the one the TOOL members left (the initial
\* one, with last_step_id set, when there is none).
C16_NestedGroupSkipped ==
    NestsGroup =>
        LET members == ToolOnly(MembersOf(LastVisited))
        IN  /\ executed[1] = Last(visited)
            /\ Len(executed) - 1 <= Len(members) * MaxPasses(LastVisited)
            /\ \A i \in 2..Len(executed) :
                   executed[i] = members[((i - 2) % Len(members)) + 1]
            /\ Len(calls) <= Len(executed) - 1
            /\ \A i \in 1..Len(calls) : calls[i].step_id = executed[i + 1]
            /\ Len(calls) = 0
                  => /\ context.last_result = None
                     /\ ~ supplied => context = [FreshContext EXCEPT
                                                   !.last_step_id = Last(visited)]
            /\ (Len(calls) > 0 /\ Len(calls) = Len(executed) - 1)
                  => context = Last(calls).after
            /\ ~ supplied
                  => \A i \in 1..Len(MembersOf(LastVisited)) :
                        IsGroup(MembersOf(LastVisited)[i])
                        => MembersOf(LastVisited)[i] \notin DOMAIN context.step_results

\* a LOOP step made two passes over a PARALLEL step that lists s2 and over
\* the TOOL step s2: s2 ran once per pass
C16_Witness ==
    /\ pc = "returned"
    /\ visited = <<"s1">>
    /\ workflow.steps["s1"].step_type = "loop"
    /\ workflow.steps["s1"].loop_steps = <<"s3", "s2">>
    /\ workflow.steps["s3"].step_type = "parallel"
    /\ workflow.steps["s3"].parallel_steps = <<"s3">>
    /\ workflow.steps["s2"].step_type = "tool"
    /\ executed = <<"s1", "s2", "s2">>
    /\ Len(calls) = 2


\* C17: every step whose handler has run - TOOL, CONDITION, PARALLEL or LOOP -
\* has an entry {result, error} under its id in step_results (stated for
\* the runs in which no handler raised: every handler that ran has returned).
C17_Ledger ==
    pc \in {"loop", "returned"} =>
        \A i \in 1..Len(executed) :
            /\ executed[i] \in DOMAIN context.step_results
            /\ DOMAIN context.step_results[executed[i]] = {"result", "error"}

\* C18: once a step has executed - at top level, as a member of a PARALLEL
\* or LOOP group or in a nested sub-chain, with or without an error -
\* context.last_step_id is the id of the step executed last.
C18_LastStepId ==
    Len(executed) > 0 => context.last_step_id = Last(executed)


\* the step names a tool the registry does not hold
NamesMissingTool(step) ==
    /\ step.step_type = "tool"
    /\ step.tool_name # ""
    /\ step.tool_name \notin ToolNames

\* the error _run_tool_step raises for it
ToolNotFound(step) ==
    ToolExecutionError(step.tool_name,
        "Tool '" \o step.tool_name \o "' not found for step '" \o step.id \o "'")

\* C20: a TOOL step naming an unregistered tool whose handler ran - at top
\* level, as a group member or in a nested chain, whatever its on_error and
\* continue_on_error - is the last step that executed: Workflow.run has
\* raised the 'not found for step' error, the handler got to no validation
\* or execution, and the failure was not recorded as a recovered one.
C20_MissingToolFatal ==
    \A i \in 1..Len(executed) :
        NamesMissingTool(workflow.steps[executed[i]])
        => /\ i = Len(executed)
           /\ pc = "raised"
           /\ raised = ToolNotFound(workflow.steps[executed[i]])
           /\ \A j \in 1..Len(calls) : calls[j].step_id # executed[i]
           /\ ~ supplied => executed[i] \notin DOMAIN context.step_results

\* a group member naming an unregistered tool, with on_error and
\* continue_on_error both set, ended the run after an earlier member had run
C20_Witness ==
    /\ pc = "raised"
    /\ Len(executed) = 3
    /\ NamesMissingTool(workflow.steps[executed[3]])
    /\ workflow.steps[executed[3]].on_error # ""
    /\ workflow.steps[executed[3]].continue_on_error
    /\ Len(calls) = 1
    /\ raised.type = "ToolExecutionError"


\* C21 as stated: a TOOL step naming an unregistered tool that has on_error
\* or continue_on_error set is recovered: once its handler has run,
\* Workflow.run has not raised and the error is recorded in
\* step_results[id].error.
C21_EveryToolErrorRecoverable ==
    \A i \in 1..Len(executed) :
        LET step == workflow.steps[executed[i]]
        IN  (NamesMissingTool(step) /\ (step.on_error # "" \/ step.continue_on_error))
            => /\ pc # "raised"
               /\ IsErrorEntry(context, step.id)

\* C21 amended: the errors of validation and execution are recoverable per
\* step, tool-not-found is not.  Every run of the TOOL handler in which
\* validate refused the parameters or execute raised, on a step with
\* on_error = X, returned X and raised nothing, and on a step with
\* continue_on_error and no on_error returned no next step and raised
\* nothing; in both cases it stored {None, message} under the step's id.  At
\* top level the traversal then continues at X, or is left without a next
\* step.  A step naming an unregistered tool ends the run with an error
\* whatever these settings are.
C21_RaisedErrorsRecoverable ==
    /\ \A i \in 1..Len(calls) :
           LET call == calls[i]
               step == workflow.steps[call.step_id]
           IN  (~ call.ok /\ (step.on_error # "" \/ step.continue_on_error))
               => /\ call.exc = NoExc
                  /\ call.next = step.on_error
                  /\ HasEntry(call.after, step.id,
                              StepResult(None, PyStr(FailureMessage(call))))
    /\ (TopToolFailed /\ (LastVisited.on_error # "" \/ LastVisited.continue_on_error))
          => /\ current_step_id = LastVisited.on_error
             /\ raised \in {NoExc, CycleError(workflow, LastVisited.on_error)}
    /\ \A i \in 1..Len(executed) :
           NamesMissingTool(workflow.steps[executed[i]]) => pc = "raised"

\* a step whose execute raised, with on_error set, was recovered inside a
\* group, and one whose validation failed, with continue_on_error, at top level
C21_Witness ==
    \/ /\ pc = "returned"
       /\ Len(visited) = 1 /\ Len(executed) > 1
       /\ Len(calls) > 0
       /\ ~ Last(calls).ok /\ Last(calls).valid
       /\ workflow.steps[Last(calls).step_id].on_error # ""
       /\ IsErrorEntry(context, Last(calls).step_id)
    \/ /\ pc = "returned"
       /\ TopToolFailed /\ ~ Last(calls).valid
       /\ LastVisited.continue_on_error /\ LastVisited.on_error = ""
       /\ IsErrorEntry(context, Last(visited))


\* str(exc) of the error raised when validate returns false
ValidationMessage(step) ==
    ToolExecutionError(step.tool_name,
        "Validation failed for tool '" \o step.tool_name \o "' in step '"
        \o step.id \o "'").msg

\* C22: in every run of the TOOL handler in which validate returned false,
\* execute was not invoked (the failure is the validation error, not an
\* outcome of execute) and the step was handled as a failed execution is:
\* {None, message} stored in step_results[id], last_result cleared, and then
\* on_error returned, or no next step with continue_on_error, or the error
\* raised.
C22_ValidationFailure ==
    \A i \in 1..Len(calls) :
        LET call == calls[i]
            step == workflow.steps[call.step_id]
        IN  ~ call.valid
            => /\ ~ call.ok
               /\ call.after.last_result = None
               /\ HasEntry(call.after, step.id,
                           StepResult(None, PyStr(ValidationMessage(step))))
               /\ call.next = step.on_error
               /\ call.exc = IF FailureOutcome(step) = "raise"
                             THEN Exc("ToolExecutionError", ValidationMessage(step))
                             ELSE NoExc


\* the error add_step raises for an id that is registered
AlreadyRegistered(id) ==
    Exc("ValueError", "Step '" \o id \o "' is already registered in workflow '"
                      \o workflow.id \o "'")

\* a call of add_step that raised for the registered id and changed nothing
RefusedStep(id) ==
    /\ id \in DOMAIN workflow.steps
    /\ raised' = AlreadyRegistered(id)
    /\ workflow' = workflow

\* a call of add_step that registered one step under its own, new id and
\* changed nothing else
AddedStep(id) ==
    /\ id \notin DOMAIN workflow.steps
    /\ raised' = NoExc
    /\ DOMAIN workflow'.steps = DOMAIN workflow.steps \cup {id}
    /\ workflow'.steps[id].id = id
    /\ \A k \in DOMAIN workflow.steps : workflow'.steps[k] = workflow.steps[k]
    /\ workflow'.id = workflow.id
    /\ workflow'.start_step_id = workflow.start_step_id

\* C23: every add_step call on a workflow built from no steps either raises
\* the "already registered" ValueError for an id that is a key of steps and
\* leaves the workflow as it was, or returns having added exactly one step
\* under its own id, which was not a key before; and in every workflow so
\* built each key of steps is the id of the step it maps to.
C23_UniqueStepIds ==
    /\ [](\A k \in DOMAIN workflow.steps : workflow.steps[k].id = k)
    /\ [][\E id \in StepIds : RefusedStep(id) \/ AddedStep(id)]_vars

\* add_step has refused a step while two others are registered
C23_Witness ==
    /\ pc = "building"
    /\ raised.type = "ValueError"
    /\ Cardinality(DOMAIN workflow.steps) = 2


\* the handler of the step has reached its members: a PARALLEL step always
\* does, a LOOP step when its first pass starts
ReachesMembers(step) ==
    \/ step.step_type = "parallel"
    \/ step.step_type = "loop" /\ AlwaysTrue(step) /\ step.max_iterations > 0

\* C24: a run whose start_step_id is not a key of steps raises KeyError
\* without executing a step and does not return; a top-level id (a branch
\* target, an on_error target) that is not a key of steps makes the run raise
\* the "not found" KeyError at once; and no run returns after a PARALLEL or
\* LOOP handler reached a member list that names an unregistered id.
C24_MissingReferenceFatal ==
    /\ (pc # "idle" /\ workflow.start_step_id \notin DOMAIN workflow.steps)
       => \/ pc = "loop" /\ visited = << >>
          \/ pc = "raised" /\ raised.type = "KeyError" /\ executed = << >>
    /\ (Len(visited) > 0 /\ Last(visited) \notin DOMAIN workflow.steps)
       => /\ pc = "raised"
          /\ raised = GetStep(workflow, Last(visited)).exc
    /\ pc = "returned"
       => \A i \in 1..Len(executed) :
              LET step == workflow.steps[executed[i]]
              IN  ReachesMembers(step)
                  => Range(MembersOf(step)) \subseteq DOMAIN workflow.steps


\* C27: the run of the loop counter scenario (max_iterations = 3, predicate
\* always true, the member increments 'counter' read through
\* ${context.counter}, counter seeded to 0) ends by returning a context whose
\* data['counter'] equals 3.
C27_CounterLoop ==
    (workflow = CounterLoopWorkflow /\ given = CounterSeed /\ pc \notin {"idle", "loop"})
    => /\ pc = "returned"
       /\ PyEq(Get(context.data, "counter"), PyInt(3))


\* the traversal started at a LOOP step whose members are registered TOOL
\* steps, and the handler has returned
LoopReturned ==
    /\ pc \in {"loop", "returned"}
    /\ Len(visited) = 1
    /\ HasLastVisited
    /\ LastVisited.step_type = "loop"
    /\ Len(LastVisited.loop_steps) > 0
    /\ \A i \in 1..Len(LastVisited.loop_steps) :
          IsRegisteredTool(LastVisited.loop_steps[i])

\* the passes of that loop: each pass makes one tool call per member
Passes == Len(calls) \div Len(LastVisited.loop_steps)

\* the loop predicate holds on the context
PredicateHolds(step, ctx) ==
    /\ EvaluateLoopCondition(step, Wrapper(ctx)).ok
    /\ EvaluateLoopCondition(step, Wrapper(ctx)).truth

\* C28: when a LOOP handler has returned, it ran whole passes, at most
\* max_iterations of them; the predicate held on the context each pass began
\* with (the one the pass before left); when fewer than max_iterations passes
\* ran, the predicate does not hold on the context the last pass left; and
\* the handler yields no next step.
C28_PredicateEachPass ==
    /\ LoopReturned
       => /\ Len(calls) = Passes * Len(LastVisited.loop_steps)
          /\ Passes <= LastVisited.max_iterations
          /\ \A k \in 1..Passes :
                PredicateHolds(LastVisited,
                    calls[(k - 1) * Len(LastVisited.loop_steps) + 1].before)
          /\ Passes < LastVisited.max_iterations
             => ~ PredicateHolds(LastVisited, context)
    /\ (TopLoopRan /\ Len(visited) = 1 /\ pc \in {"loop", "returned"})
       => current_step_id = ""

\* a loop that may run two passes stopped after one, when its member had
\* raised the counter to 2
C28_Witness ==
    /\ LoopReturned
    /\ LastVisited.loop_condition = "counter_lt_2"
    /\ Passes = 1
    /\ LastVisited.max_iterations >= 2
    /\ context.data["counter"] = PyFloat(2)


\* the first step of the run was a TOOL step and its handler resolved its
\* parameters
FirstStepCalled ==
    /\ Len(executed) > 0
    /\ Len(calls) > 0
    /\ executed[1] = workflow.start_step_id
    /\ calls[1].step_id = executed[1]

\* the first step of the run was a CONDITION step that tests the seeded
\* counter, and its handler has just returned
FirstStepTestedCounter ==
    /\ visited = <<workflow.start_step_id>>
    /\ TopConditionRan
    /\ pc = "loop"
    /\ LastVisited.condition = ""
    /\ LastVisited.condition_expression = "context['context'].get('counter', 0) < 2"

\* a step that ran and may have written the key of data
Overwrote(k) ==
    \E i \in 1..Len(calls) : workflow.steps[calls[i].step_id].output_key = k

\* C29: in a run on a supplied context, the templates of the first step
\* read the seeded values (${context.k} is data[k], ${A.result} is the result
\* of the seeded entry of A), its condition reads the seeded data, and every
\* seeded key of data and step_results is still there, with its seeded value
\* unless a step of the run wrote it; a run without a supplied context
\* starts from empty data and step_results with last_step_id and last_result
\* unset; and after a fatal error the context holds what the last tool call
\* before the abort left.
C29_CallerContext ==
    /\ (supplied /\ FirstStepCalled)
       => \A key \in TemplateKeys(calls[1]) :
             LET A == PathOf(calls[1], key)[1]
                 f == PathOf(calls[1], key)[2]
             IN  /\ (A = "context" /\ f \in DOMAIN given.data)
                    => calls[1].params[key] = given.data[f]
                 /\ (A \in DOMAIN given.step_results /\ f = "result")
                    => calls[1].params[key] = given.step_results[A].result
    /\ (supplied /\ FirstStepTestedCounter)
       => /\ (Len(LastVisited.on_true) = 1
                 /\ PyLess(GetOr0(given.data, "counter"), 2).truth)
             => current_step_id = LastVisited.on_true[1]
          /\ (Len(LastVisited.on_false) = 1
                 /\ ~ PyLess(GetOr0(given.data, "counter"), 2).truth)
             => current_step_id = LastVisited.on_false[1]
    /\ (supplied /\ pc # "idle")
       => /\ \A k \in DOMAIN given.data :
                /\ k \in DOMAIN context.data
                /\ context.data[k] = given.data[k] \/ Overwrote(k)
          /\ \A A \in DOMAIN given.step_results :
                /\ A \in DOMAIN context.step_results
                /\ context.step_results[A] = given.step_results[A]
                   \/ A \in Range(executed)
    /\ (~ supplied /\ pc = "loop" /\ visited = << >>)
       => context = WorkflowContext(EmptyMap, EmptyMap)
    /\ (supplied /\ pc = "raised" /\ Len(calls) > 0)
       => /\ context.data = Last(calls).after.data
          /\ context.step_results = Last(calls).after.step_results


\* the events of the log with that name, among the first n
EventsOf(name, n) == {i \in 1..n : runner.execution_log[i].event = name}

\* a step of WorkflowRunner.run itself, not of the workflow.run it calls
RunnerStep == runner' # runner

\* C26: WorkflowRunner.run, logging enabled, appends the workflow_start
\* event and nothing else before workflow.run begins and, once workflow.run
\* has returned, the workflow_complete event with the last_step_id of the
\* returned context; logging disabled, it never changes the log; it returns
\* the context workflow.run returned and changes nothing of the traversal;
\* the log changes in no other step; and up to any workflow_complete in the
\* log there are at least as many workflow_start events with one before it.
C26_RunnerLogging ==
    /\ [](/\ runner.pc = "returned"
              => pc = "returned" /\ runner.ctx = context
          /\ pc # "uncalled" => runner.pc # "called"
          /\ \A i \in EventsOf("workflow_complete", Len(runner.execution_log)) :
                /\ EventsOf("workflow_start", i) # {}
                /\ Cardinality(EventsOf("workflow_start", i))
                   >= Cardinality(EventsOf("workflow_complete", i)))
    /\ [][/\ ~ runner.enable_logging
              => runner'.execution_log = runner.execution_log
          /\ (runner.enable_logging /\ runner.pc = "called" /\ RunnerStep)
              => /\ runner'.execution_log =
                       Append(runner.execution_log,
                              [event |-> "workflow_start", workflow_id |-> workflow.id])
                 /\ pc' = "idle"
          /\ (runner.enable_logging /\ runner.pc = "running" /\ RunnerStep)
              => /\ pc = "returned"
                 /\ runner'.execution_log =
                       Append(runner.execution_log,
                              [event |-> "workflow_complete", workflow_id |-> workflow.id,
                               last_step_id |-> context.last_step_id])
          /\ RunnerStep
              => UNCHANGED <<workflow, supplied, context, current_step_id, visited,
                             raised, executed, calls>>
          /\ ~ RunnerStep => runner'.execution_log = runner.execution_log]_vars

\* the runner, logging enabled, has returned the context of a run that
\* executed two steps, after an earlier run that raised
C26_Witness ==
    /\ runner.pc = "returned"
    /\ runner.enable_logging
    /\ Len(runner.execution_log) = 3
    /\ Last(runner.execution_log).event = "workflow_complete"
    /\ Last(runner.execution_log).last_step_id = "s2"
    /\ Len(visited) = 2


\* the call has ended: it returned, raised or hangs in a handler
Ended(call) == call.pc \in {"returned", "raised", "hung"}

\* the call ended as it ends when no other call runs
EndsAsAlone(call) ==
    /\ call.pc = RunAlone(workflow, call.supplied, call.given).pc
    /\ call.context = RunAlone(workflow, call.supplied, call.given).context
    /\ call.raised = RunAlone(workflow, call.supplied, call.given).raised

\* C25: of two calls of Workflow.run on the same workflow, interleaved in any
\* way, each with its own context, each ends (returns its context or raises)
\* exactly as it ends when it runs alone on the context it was given; and no
\* step of either call changes the workflow (its steps, their fields, its
\* start_step_id).
C25_ConcurrentRuns ==
    /\ [](/\ Ended(Suspended) => EndsAsAlone(Suspended)
          /\ Ended(other) => EndsAsAlone(other))
    /\ [][workflow' = workflow]_vars

\* both calls have returned, from contexts seeded differently, each having
\* run a tool step while the other was in its traversal
C25_Witness ==
    /\ pc = "returned"
    /\ other.pc = "returned"
    /\ given # other.given
    /\ context.data # other.context.data
    /\ Len(calls) >= 4
    /\ calls[1].before.data # calls[2].before.data
    /\ calls[2].before.data # calls[3].before.data


\* v is what the parameter value p must resolve to: a list of the same
\* length or a dict of the same keys whose elements are, in turn, the
\* resolved elements of p; the referenced value for a reference; the
\* literal itself for every other leaf
RECURSIVE ResolvedAs(_, _, _)
ResolvedAs(p, v, wrapper) ==
    IF p.tpl THEN v = ResolvePath(p.path, wrapper).value
    ELSE IF IsListParam(p)
    THEN /\ v.kind = "list"
         /\ Len(v.items) = Len(p.list)
         /\ \A j \in 1..Len(p.list) : ResolvedAs(p.list[j], v.items[j], wrapper)
    ELSE IF IsDictParam(p)
    THEN /\ v.kind = "dict"
         /\ DOMAIN v.map = DOMAIN p.dict
         /\ \A k \in DOMAIN p.dict : ResolvedAs(p.dict[k], v.map[k], wrapper)
    ELSE v = p.lit

\* C30: whenever resolve_params returns, the dict it hands to the tool has
\* the keys of tool_params, and the value under each key has the shape of
\* the tool_params value (lists of the same length, dicts of the same keys,
\* at every depth) with each reference replaced by the value it resolves to
\* in the context of the call and every other leaf unchanged.
C30_RecursiveResolution ==
    \A i \in 1..Len(calls) :
        LET tool_params == workflow.steps[calls[i].step_id].tool_params
        IN  /\ DOMAIN calls[i].params = DOMAIN tool_params
            /\ \A key \in DOMAIN tool_params :
                  ResolvedAs(tool_params[key], calls[i].params[key],
                             Wrapper(calls[i].before))

\* a list inside a dict was resolved: its reference to the seeded result of
\* s3 became that result, next to a dict resolved in turn
C30_Witness ==
    /\ Len(calls) > 0
    /\ "a" \in DOMAIN calls[1].params
    /\ calls[1].params["a"].kind = "dict"
    /\ DOMAIN calls[1].params["a"].map = {"x", "y"}
    /\ calls[1].params["a"].map["x"].kind = "list"
    /\ Len(calls[1].params["a"].map["x"].items) = 2
    /\ calls[1].params["a"].map["x"].items[1] = PyStr("Paris")
    /\ calls[1].params["a"].map["x"].items[2].kind = "dict"
    /\ calls[1].params["a"].map["y"] = PyDict([k \in {} |-> None])


\* the context the run started on
StartContext == IF supplied THEN given ELSE WorkflowContext(EmptyMap, EmptyMap)

\* the context as the tool call before call i left it
LeftBefore(i) == IF i = 1 THEN StartContext ELSE calls[i - 1].after

\* the two contexts agree on data, step_results and last_result
SameContent(ctx1, ctx2) ==
    /\ ctx1.data = ctx2.data
    /\ ctx1.step_results = ctx2.step_results
    /\ ctx1.last_result = ctx2.last_result

DataAfter(call) ==
    LET step == workflow.steps[call.step_id]
    IN  IF call.ok /\ step.output_key # ""
        THEN Put(call.before.data, step.output_key,
                 ToolExecute(step.tool_name, call.params).value)
        ELSE call.before.data

\* C32: context.data is what the run started with, changed by nothing but
\* the tool calls: each call finds the data the call before it left (no
\* CONDITION, PARALLEL or LOOP handler and no step in between changed it),
\* a successful call of a step with output_key changes that key only, to
\* its result, and every other call (no output_key, or failed) leaves data
\* as it found it.
C32_DataFrame ==
    /\ \A i \in 1..Len(calls) :
          /\ calls[i].before.data = LeftBefore(i).data
          /\ calls[i].after.data = DataAfter(calls[i])
    /\ pc # "idle" => context.data = LeftBefore(Len(calls) + 1).data

\* a failed call of a step with output_key left the value an earlier call
\* had written under that key, in a run that went through a LOOP handler
C32_Witness ==
    /\ Len(calls) >= 2
    /\ ~ Last(calls).ok
    /\ workflow.steps[Last(calls).step_id].output_key \in DOMAIN Last(calls).after.data
    /\ calls[1].ok
    /\ workflow.steps[calls[1].step_id].output_key
          = workflow.steps[Last(calls).step_id].output_key
    /\ \E i \in 1..Len(executed) : workflow.steps[executed[i]].step_type = "loop"



\* the positions of the model's responses in the agent's history
Replies == {i \in 1..Len(agent.conversation_history) :
              agent.conversation_history[i].role = "assistant"}

RequestsTools(i) == Len(agent.conversation_history[i].tool_calls) > 0

\* the k-th tool call of the response at position i failed and the history
\* holds its error TOOL message, after the messages of the calls before it
ErrorAppended(i, k) ==
    LET tool_calls == agent.conversation_history[i].tool_calls
        j == i + Cardinality({n \in 1..k : tool_calls[n].name # ""})
    IN  /\ j <= Len(agent.conversation_history)
        /\ agent.conversation_history[j].role = "tool"
        /\ agent.conversation_history[j].tool_call_id = tool_calls[k].id
        /\ agent.conversation_history[j].name = tool_calls[k].name
        /\ agent.conversation_history[j].content
             = "Error: " \o CallOutcome(tool_calls[k]).exc.msg

\* C33: process_message calls the model provider at most max_iterations
\* times; it returns the first response without tool calls, and the
\* 'Maximum iterations reached' message when all max_iterations responses
\* request tool calls; a failing tool call never raises out of
\* process_message and is appended to the history as an error TOOL message.
C33_AgentBounded ==
    agent.pc \in {"loop", "returned", "raised"} =>
        /\ agent.generated <= agent.max_iterations
        /\ agent.pc = "returned" =>
             \/ /\ Len(agent.response.tool_calls) = 0
                /\ Len(agent.conversation_history) \in Replies
                /\ agent.response
                     = agent.conversation_history[Len(agent.conversation_history)]
                /\ \A i \in Replies \ {Len(agent.conversation_history)} :
                      RequestsTools(i)
             \/ /\ agent.response = MaxIterationsMessage
                /\ agent.generated = agent.max_iterations
                /\ Cardinality(Replies) = agent.max_iterations
                /\ \A i \in Replies : RequestsTools(i)
        /\ agent.pc = "raised" => agent.exc.type = "ProviderError"
        /\ \A i \in Replies :
              \A k \in 1..Len(agent.conversation_history[i].tool_calls) :
                 LET tool_call == agent.conversation_history[i].tool_calls[k]
                 IN  (tool_call.name # "" /\ ~ CallOutcome(tool_call).ok)
                        => ErrorAppended(i, k)

\* the bound is reached after a response whose first call failed and whose
\* second succeeded, and after one that failed on its JSON arguments
C33_Witness ==
    /\ agent.pc = "returned"
    /\ agent.response = MaxIterationsMessage
    /\ agent.generated = 2
    /\ \E i, j \in Replies :
          /\ Len(agent.conversation_history[i].tool_calls) = 2
          /\ agent.conversation_history[i + 1].tool_call_id = "c4"
          /\ agent.conversation_history[i + 2].content = "3.0"
          /\ agent.conversation_history[j].tool_calls[1].id = "c6"



\* C34: run_multi_agent runs at most max_rounds rounds and returns at most
\* one message per round; with the default routing, round r is handled by
\* agents[(r-1) mod len(agents)]; it stops after the first agent response for
\* which the conversation should not continue, and at the first agent
\* exception when no error_handler is configured.
C34_MultiAgentBounded ==
    multi.pc \in {"loop", "returned", "raised"} =>
        /\ multi.rounds <= multi.max_rounds
        /\ Len(multi.messages) <= multi.rounds
        /\ multi.agents > 0 =>
             /\ Len(multi.selected) = multi.rounds
             /\ \A r \in 1..multi.rounds :
                   /\ multi.selected[r].agent = (r - 1) % multi.agents
                   /\ multi.selected[r].raised
                        => (multi.error_handler \/ (r = multi.rounds
                                                    /\ multi.pc = "returned"
                                                    /\ Len(multi.messages) = r - 1))
                   /\ ~ multi.selected[r].raised
                        => /\ r <= Len(multi.messages)
                           /\ (/\ Len(multi.messages[r].tool_calls) = 0
                               /\ multi.messages[r].content
                                    \in {<<"D", "o", "n", "e">>,
                                         <<"f", "r", "i", "e", "n", "d">>})
                                => (r = multi.rounds /\ multi.pc = "returned")
                           /\ (r = multi.rounds /\ multi.rounds < multi.max_rounds
                               /\ multi.pc = "returned")
                                => ~ ShouldContinue(multi.messages[r])

\* the second of two agents ends the conversation in the second round with
\* an answer that holds a stop signal inside a word, after the first agent
\* raised and the error handler answered
C34_Witness ==
    /\ multi.pc = "returned"
    /\ multi.agents = 2
    /\ multi.max_rounds > 2
    /\ multi.rounds = 2
    /\ multi.selected[1].raised
    /\ multi.selected[2].agent = 1
    /\ multi.messages[2].content = <<"f", "r", "i", "e", "n", "d">>



\* the step executed right after the i-th call of the TOOL handler, "" when
\* none was; the group step itself is the first executed
ExecutedAfter(i) == IF Len(executed) > i + 1 THEN executed[i + 2] ELSE ""

\* C35: error redirection is honoured inside groups as at top level: when a
\* TOOL step that is a direct member of parallel_steps or loop_steps fails
\* and has on_error = X, the next step executed is X.
C35_GroupErrorRedirect ==
    (TopGroupRan /\ AllToolMembers(MembersOf(LastVisited)))
        => \A i \in 1..Len(calls) :
              (/\ ~ calls[i].ok
               /\ workflow.steps[calls[i].step_id].on_error # "")
                 => ExecutedAfter(i) = workflow.steps[calls[i].step_id].on_error



\* the run started at the group step of a workflow of the chain family, whose
\* handler has run to its end
ChainGroupRan ==
    /\ TopGroupRan
    /\ "s4" \in DOMAIN workflow.steps
    /\ pc \in {"loop", "returned", "raised"}

\* the id a CONDITION step of the chain family selects, "" for none
BranchOf(step) ==
    LET branch == IF step.condition = "always_true" THEN step.on_true
                  ELSE step.on_false
    IN  IF Len(branch) = 0 THEN "" ELSE branch[1]

\* the id the handler of a TOOL step of the chain family returns: its tool
\* fails when it is the weather tool, which is called without a location
ReturnedBy(step) ==
    IF step.tool_name = "weather" THEN step.on_error ELSE ""

\* the steps of the sub-chain that starts at id, as the claim describes it:
\* TOOL steps, each followed by the step its handler returns, up to a dead
\* end or a step that is not a TOOL step
RECURSIVE ChainFrom(_, _)
ChainFrom(id, fuel) ==
    IF id = "" \/ fuel = 0 THEN << >>
    ELSE IF workflow.steps[id].step_type # "tool" THEN << >>
    ELSE <<id>> \o ChainFrom(ReturnedBy(workflow.steps[id]), fuel - 1)

\* the steps one pass over the members executes, from member i on
RECURSIVE PassFrom(_, _)
PassFrom(ids, i) ==
    IF i > Len(ids) THEN << >>
    ELSE (IF workflow.steps[ids[i]].step_type = "condition"
          THEN <<ids[i]>> \o ChainFrom(BranchOf(workflow.steps[ids[i]]),
                                       Cardinality(DOMAIN workflow.steps))
          ELSE <<ids[i]>>)
         \o PassFrom(ids, i + 1)

RECURSIVE Repeated(_, _)
Repeated(pass, n) == IF n = 0 THEN << >> ELSE pass \o Repeated(pass, n - 1)

IsPrefix(s, t) == Len(s) <= Len(t) /\ s = SubSeq(t, 1, Len(s))

\* C36: inside a PARALLEL or LOOP group, a CONDITION member whose selected
\* branch names a step starts a sequential sub-chain: the named step is
\* executed if it is a TOOL step and the chain continues with the id that
\* step's handler returns; the chain ends when the handler returns no next
\* step or when the next step is not a TOOL step, which is not executed, and
\* the group continues with its next member.
C36_NestedChain ==
    ChainGroupRan =>
        LET expected == <<Last(visited)>>
                        \o Repeated(PassFrom(MembersOf(LastVisited), 1),
                                  MaxPasses(LastVisited))
        IN  /\ IsPrefix(executed, expected)
            /\ pc # "raised" => executed = expected

\* the condition s2 of a PARALLEL group started the chain s3, s4: s3 failed
\* and named s4, s4 failed and named the CONDITION step s2, which was not
\* executed again; the group went on with its member s4
C36_Witness ==
    /\ pc = "returned"
    /\ "s4" \in DOMAIN workflow.steps
    /\ workflow.steps["s1"].step_type = "parallel"
    /\ workflow.steps["s4"].on_error = "s2"
    /\ executed = <<"s1", "s2", "s3", "s4", "s4">>
    /\ Len(calls) = 3
    /\ calls[1].next = "s4"
    /\ calls[2].next = "s2"



\* C37: every Workflow.run call returns the context or raises, also when
\* branch and on_error references form cycles among the steps reached from
\* PARALLEL or LOOP members: no run is ever inside a handler that does not
\* return.
C37_RunTerminates == pc # "hung"



\* the CONDITION handler, run on the first step of the traversal, took the
\* named branch of the step: with an empty list the run ends normally, with
\* one id that id is the next step, with more the configuration error names
\* the branch
TookBranch(step, name) ==
    LET branch == IF name = "on_true" THEN step.on_true ELSE step.on_false
    IN  IF Len(branch) = 0
        THEN raised = NoExc /\ current_step_id = "" /\ pc \in {"loop", "returned"}
        ELSE IF Len(branch) = 1
        THEN raised = NoExc /\ current_step_id = branch[1] /\ pc = "loop"
        ELSE pc = "raised" /\ raised = MultipleNextSteps(step.id, name)

\* the LOOP handler, run on the first step of the traversal, executed no
\* member and left the data as they were
BodyNeverExecuted ==
    /\ executed = <<Last(visited)>>
    /\ calls = << >>
    /\ raised = NoExc
    /\ context.data = StartContext.data

\* C38: a CONDITION step with neither condition nor condition_expression
\* evaluates to true (on_true is taken); a LOOP step with neither
\* loop_condition nor loop_expression evaluates to false, so its body is never
\* executed whatever max_iterations is; when both a function and an
\* expression are set, the function decides.
C38_DefaultPredicates ==
    /\ (TopConditionRan /\ visited = <<Last(visited)>>)
          => /\ (LastVisited.condition = "" /\ LastVisited.condition_expression = "")
                   => TookBranch(LastVisited, "on_true")
             /\ (/\ LastVisited.condition = "always_false"
                 /\ LastVisited.condition_expression = "True")
                   => TookBranch(LastVisited, "on_false")
             /\ (/\ LastVisited.condition = "raises"
                 /\ LastVisited.condition_expression = "True")
                   => pc = "raised" /\ raised.type = "KeyError"
    /\ (TopLoopRan /\ visited = <<Last(visited)>>)
          => /\ (LastVisited.loop_condition = "" /\ LastVisited.loop_expression = "")
                   => BodyNeverExecuted
             /\ (/\ LastVisited.loop_condition = "always_false"
                 /\ LastVisited.loop_expression = "True")
                   => BodyNeverExecuted
             /\ (/\ LastVisited.loop_condition = "raises"
                 /\ LastVisited.loop_expression = "True"
                 /\ Len(LastVisited.loop_steps) > 0
                 /\ LastVisited.max_iterations > 0)
                   => pc = "raised" /\ raised.type = "KeyError"

\* a LOOP step without a predicate, with two members and max_iterations at
\* the bound, returned without executing a member; a CONDITION step without
\* a predicate led to the single id of its on_true
C38_Witness ==
    \/ /\ pc = "returned"
       /\ visited = <<"s1">>
       /\ workflow.steps["s1"].step_type = "loop"
       /\ workflow.steps["s1"].loop_condition = ""
       /\ workflow.steps["s1"].loop_expression = ""
       /\ workflow.steps["s1"].loop_steps = <<"s2", "s3">>
       /\ workflow.steps["s1"].max_iterations = MaxIter
       /\ executed = <<"s1">>
    \/ /\ visited = <<"s1">>
       /\ workflow.steps["s1"].step_type = "condition"
       /\ workflow.steps["s1"].condition = ""
       /\ workflow.steps["s1"].condition_expression = ""
       /\ workflow.steps["s1"].on_true = <<"s2">>
       /\ workflow.steps["s1"].on_false = <<"s3">>
       /\ executed = <<"s1">>
       /\ current_step_id = "s2"



\* the i-th run of the TOOL handler failed on a step with both on_error and
\* continue_on_error set
FailedWithBoth(i) ==
    /\ ~ calls[i].ok
    /\ workflow.steps[calls[i].step_id].on_error # ""
    /\ workflow.steps[calls[i].step_id].continue_on_error

\* C39: on_error takes precedence over continue_on_error: when a TOOL step
\* with both on_error = X and continue_on_error = true fails, the error is
\* recorded and the handler returns X as the next step rather than ending
\* the traversal; at top level X becomes the current step.
C39_OnErrorPrecedence ==
    /\ \A i \in 1..Len(calls) :
          FailedWithBoth(i)
             => /\ calls[i].exc = NoExc
                /\ calls[i].next = workflow.steps[calls[i].step_id].on_error
                /\ HasEntry(calls[i].after, calls[i].step_id,
                            StepResult(None, PyStr(FailureMessage(calls[i]))))
    /\ (/\ Len(calls) = 1
        /\ visited = <<calls[1].step_id>>
        /\ FailedWithBoth(1))
          => /\ pc = "loop"
             /\ current_step_id = workflow.steps[calls[1].step_id].on_error

\* the first step failed validation with on_error = s3 and continue_on_error
\* set, and the traversal has dispatched s3
C39_Witness ==
    /\ Len(calls) >= 1
    /\ Len(visited) >= 2
    /\ visited[1] = calls[1].step_id
    /\ FailedWithBoth(1)
    /\ ~ calls[1].valid
    /\ visited[2] = "s3"
    /\ workflow.steps[visited[1]].on_error = "s3"



\* the run started at a group step whose members are TOOL steps with
\* registered tools, so that the i-th run of the TOOL handler is that of a
\* direct member
GroupOfTools ==
    /\ TopGroupRan
    /\ Len(MembersOf(LastVisited)) > 0
    /\ AllToolMembers(MembersOf(LastVisited))

\* the i-th run of the TOOL handler failed on a step with continue_on_error
\* and no on_error, and on a step with neither
SwallowedAt(i) ==
    /\ ~ calls[i].ok
    /\ workflow.steps[calls[i].step_id].on_error = ""
    /\ workflow.steps[calls[i].step_id].continue_on_error

FatalAt(i) ==
    /\ ~ calls[i].ok
    /\ workflow.steps[calls[i].step_id].on_error = ""
    /\ ~ workflow.steps[calls[i].step_id].continue_on_error

\* the member after the i-th run is executed: the next of the list, or the
\* first of the list in the next pass of a LOOP whose predicate stays true
\* and whose bound is not reached
RemainingExecute(i) ==
    LET members == MembersOf(LastVisited)
        n == Len(members)
    IN  /\ i % n # 0
           => /\ Len(calls) > i
              /\ calls[i + 1].step_id = members[(i % n) + 1]
              /\ executed[i + 2] = members[(i % n) + 1]
        /\ (/\ i % n = 0
            /\ LastVisited.step_type = "loop"
            /\ AlwaysTrue(LastVisited)
            /\ i \div n < LastVisited.max_iterations)
           => /\ Len(calls) > i
              /\ calls[i + 1].step_id = members[1]
              /\ executed[i + 2] = members[1]

\* C40: when a direct TOOL member of a PARALLEL or LOOP group fails with
\* continue_on_error = true and no on_error, the failure is recorded in
\* step_results and the remaining members (and the remaining LOOP
\* iterations) still execute; when it fails with neither on_error nor
\* continue_on_error, the error propagates out of Workflow.run at once and no
\* remaining member or iteration executes.
C40_MemberFailure ==
    GroupOfTools =>
        \A i \in 1..Len(calls) :
           /\ calls[i].step_id = executed[i + 1]
           /\ SwallowedAt(i)
                => /\ HasEntry(calls[i].after, calls[i].step_id,
                               StepResult(None, PyStr(FailureMessage(calls[i]))))
                   /\ RemainingExecute(i)
           /\ FatalAt(i)
                => /\ i = Len(calls)
                   /\ Len(executed) = i + 1
                   /\ pc = "raised"
                   /\ raised.msg = FailureMessage(calls[i])

\* a LOOP step made two passes over s2, which failed with
\* continue_on_error both times, and s3, which ran after it both times
C40_Witness ==
    /\ pc = "returned"
    /\ visited = <<"s1">>
    /\ workflow.steps["s1"].step_type = "loop"
    /\ workflow.steps["s1"].loop_steps = <<"s2", "s3">>
    /\ Len(calls) = 4
    /\ SwallowedAt(1)
    /\ calls[2].ok
    /\ SwallowedAt(3)
    /\ executed = <<"s1", "s2", "s3", "s2", "s3">>

=============================================================================
